---- MODULE Spec2Model ----
(***************************************************************************)
(* Model of the hybrid recommendation pipeline of                          *)
(* backend/app/ml/recommendation (HybridRecommendationEngine and the       *)
(* objects it drives: the candidate sources, the scoring backends, the     *)
(* DiversityOptimizer, the RecommendationExplainer and the Redis result    *)
(* cache).                                                                 *)
(*                                                                         *)
(* Numbers.  Python floats are modelled as fixed-point integers:           *)
(*   component scores          in units of 1/100000   (ONE = 1.0)          *)
(*   weights                   in units of 1/100      (percent)            *)
(*   aggregate scores          in units of 1/10000000 (weight x component) *)
(*   similarities              in units of 1/10000                         *)
(*   confidence                in units of 1/100000                        *)
(***************************************************************************)
EXTENDS Integers, Sequences, FiniteSets, TLC

\* ------------------------------------------------------------------ bounds
NumMovies == 3
MaxSrcLen == 2
MaxTopK == 2

Movies == 1..NumMovies

\* An optional number: a missing key, a null, or a value.
Absent == [k |-> "absent", v |-> 0]
NoValue == [k |-> "null", v |-> 0]
Num(x) == [k |-> "num", v |-> x]
Get(value, default) == IF value.k = "absent" THEN default ELSE value.v

\* ---------------------------------------------------------- configuration
REC_COLLABORATIVE_WEIGHT == 35
REC_CONTENT_WEIGHT == 25
REC_GNN_WEIGHT == 20
REC_SENTIMENT_WEIGHT == 10
REC_POPULARITY_WEIGHT == 5
REC_CONTEXT_WEIGHT == 5
REC_DIVERSITY_LAMBDA == 7
\* seconds
REC_CACHE_TTL == 3600
CACHE_DEFAULT_TTL == 3600
ONE == 100000
AGG_ONE == 10000000

Components == <<"collaborative", "content", "gnn", "sentiment", "popularity", "context">>

weights ==
    [collaborative |-> REC_COLLABORATIVE_WEIGHT,
     content |-> REC_CONTENT_WEIGHT,
     gnn |-> REC_GNN_WEIGHT,
     sentiment |-> REC_SENTIMENT_WEIGHT,
     popularity |-> REC_POPULARITY_WEIGHT,
     context |-> REC_CONTEXT_WEIGHT]

\* ------------------------------------------------------------- arithmetic
Min(a, b) == IF a <= b THEN a ELSE b
Max(a, b) == IF a >= b THEN a ELSE b

RECURSIVE IsqrtBetween(_, _, _)
IsqrtBetween(n, lo, hi) ==
    IF lo >= hi THEN lo
    ELSE LET mid == (lo + hi + 1) \div 2
         IN  IF mid * mid <= n THEN IsqrtBetween(n, mid, hi)
                               ELSE IsqrtBetween(n, lo, mid - 1)

\* floor of the square root of n, 0 <= n < 2^31
Isqrt(n) == IsqrtBetween(n, 0, 46340)

\* round half up to a multiple of q (q > 0), for any sign of x
RoundTo(x, q) ==
    IF x >= 0 THEN ((x + q \div 2) \div q) * q
              ELSE -(((-x + q \div 2) \div q) * q)

RECURSIVE SumSeq(_)
SumSeq(s) == IF s = <<>> THEN 0 ELSE Head(s) + SumSeq(Tail(s))

SeqToSet(s) == {s[i] : i \in 1..Len(s)}

\* ------------------------------------------------------------------- data
Users == {"u1", "u2"}
UserIdx(u) == IF u = "u1" THEN 1 ELSE 2

\* What asyncio.gather(..., return_exceptions=True) holds for one task: the
\* list the source returned, or the exception it raised.
Pending == [status |-> "pending", list |-> <<>>]
Exc == [status |-> "raised", list |-> <<>>]
Returned(list) == [status |-> "returned", list |-> list]
IsException(result) == result.status = "raised"

\* The candidate dict a source reports for movie m.  Top-level keys are the
\* ones _calculate_component_scores and _calculate_context_score read with
\* candidate.get(...); "metadata" is what diversity.py reads.  Absent is a
\* missing key, NoValue a key whose value is null.  The collaborative source
\* reports {movie_id, score, source, metadata: {}}, the graph source
\* {movie_id, score, metadata}; a content or trending source reports whatever
\* its catalogue holds, a null popularity included.
MetadataOf(src, m) ==
    IF src = "collaborative"
    THEN [genres |-> {}, release_year |-> Absent, rating |-> Absent, popularity |-> Absent]
    ELSE [genres |-> IF m % 3 = 0 THEN {"Comedy"} ELSE {"Drama"},
          release_year |-> Num(1950 + 25 * (m % 4)),
          rating |-> Num(4 + (m % 5)),
          popularity |-> Num(20 * ((m % 4) + 1))]

Candidate(src, m) ==
    LET bare == src \in {"collaborative", "gnn"}
    IN  [movie_id |-> m,
         source |-> src,
         sentiment_score |-> IF bare THEN Absent ELSE Num(20000 * Min(m, 5)),
         popularity |-> IF bare THEN Absent
                        ELSE IF src = "content" /\ m = 1 THEN NoValue
                        ELSE Num(40 * m),
         runtime |-> IF bare THEN Absent
                     ELSE IF m % 2 = 1 THEN Num(90) ELSE Num(150),
         moods |-> IF ~bare /\ m = 2 THEN {"happy"} ELSE {},
         cinematography_rating |-> IF ~bare /\ m = 3 THEN Num(45) ELSE Absent,
         genres |-> IF bare THEN {} ELSE IF m % 3 = 0 THEN {"Comedy"} ELSE {"Drama"},
         metadata |-> MetadataOf(src, m)]

\* lists of distinct movies of length <= n
RECURSIVE MovieLists(_)
MovieLists(n) ==
    IF n = 0 THEN {<<>>}
    ELSE LET shorter == MovieLists(n - 1)
         IN  shorter \cup
             {Append(l, m) : l \in {x \in shorter : Len(x) = n - 1}, m \in Movies}

NoRepeat(l) == \A i, j \in 1..Len(l) : i # j => l[i] # l[j]

SourceLists(src, n, movies) ==
    {[i \in 1..Len(l) |-> Candidate(src, l[i])] :
        l \in {x \in MovieLists(n) : NoRepeat(x) /\ SeqToSet(x) \subseteq movies}}

\* -------------------------------------------------------- scoring backends
\* CollaborativeFilteringEngine.predict_rating
SvdEstimate(user_id, movie_id) == 5 + ((UserIdx(user_id) * 17 + movie_id * 23) % 46)

Clip01(x) == Max(0, Min(ONE, x))

\* variant: an untrained or failing model scores 0
predict_rating_low(is_trained, raises, user_id, movie_id) ==
    IF ~is_trained \/ raises THEN 0
    ELSE Clip01(((SvdEstimate(user_id, movie_id) - 5) * ONE) \div 45)

\* CollaborativeFilteringEngine.predict_rating
predict_rating(is_trained, raises, user_id, movie_id) ==
    IF ~is_trained THEN 3 * ONE
    ELSE IF raises THEN ONE \div 2
    ELSE Clip01(((SvdEstimate(user_id, movie_id) - 5) * ONE) \div 45)

\* HybridRecommendationEngine._get_user_profile
get_user_profile(user_id) == [user_id |-> user_id, favorite_genres |-> {}]

\* ContentBasedEngine.calculate_similarity
calculate_similarity(user_profile, movie_candidate) ==
    LET user_genres == user_profile.favorite_genres
        movie_genres == movie_candidate.genres
    IN  IF user_genres = {} \/ movie_genres = {} THEN ONE \div 2
        ELSE (Cardinality(user_genres \cap movie_genres) * ONE)
                 \div Cardinality(user_genres \cup movie_genres)

\* GNNRecommender.predict_score: the cosine of two unit embeddings
EmbeddingCosine(user_id, movie_id) ==
    (((UserIdx(user_id) * 31 + movie_id * 47) % 21) - 10) * 9871

gnn_predict_score(raises, user_id, movie_id) ==
    IF raises THEN ONE \div 2 ELSE EmbeddingCosine(user_id, movie_id)

\* HybridRecommendationEngine._calculate_context_score
calculate_context_score(candidate, context) ==
    LET runtime == Get(candidate.runtime, 120)
        s1 == IF context.hour.k = "num" /\ context.hour.v >= 22 /\ runtime < 100
              THEN 20000 ELSE 0
        s2 == IF context.hour.k = "num" /\ context.is_weekend /\ runtime > 140
              THEN 10000 ELSE 0
        s3 == IF context.mood \in candidate.moods
              THEN 30000 ELSE 0
        s4 == IF context.device = "mobile" /\ Get(candidate.cinematography_rating, 0) > 40
              THEN 10000 ELSE 0
    IN  Min(50000 + s1 + s2 + s3 + s4, ONE)

\* The arithmetic of _calculate_component_scores raises TypeError on a null.
ScoringRaises(candidate) ==
    candidate.popularity.k = "null" \/ candidate.sentiment_score.k = "null"

\* HybridRecommendationEngine._calculate_component_scores
calculate_component_scores(env, user_id, candidate, context) ==
    [collaborative |-> predict_rating(env.is_trained, env.cf_raises, user_id, candidate.movie_id),
     content |-> calculate_similarity(get_user_profile(user_id), candidate),
     gnn |-> IF env.gnn_enabled
             THEN gnn_predict_score(env.gnn_raises, user_id, candidate.movie_id)
             ELSE 0,
     sentiment |-> Get(candidate.sentiment_score, 0),
     popularity |-> Min(Get(candidate.popularity, 0) * 1000, ONE),
     context |-> calculate_context_score(candidate, context)]

\* variant: the context component left out of the sum
WeightedSumWithoutContext(scores) ==
    SumSeq([i \in 1..(Len(Components) - 1) |-> weights[Components[i]] * scores[Components[i]]])

\* final_score = sum(self.weights[component] * score for component, score in scores.items())
WeightedSum(scores) ==
    SumSeq([i \in 1..Len(Components) |-> weights[Components[i]] * scores[Components[i]]])

ScoredCandidate(env, user_id, candidate, context) ==
    LET scores == calculate_component_scores(env, user_id, candidate, context)
    IN  [movie_id |-> candidate.movie_id,
         score |-> WeightedSum(scores),
         components |-> scores,
         metadata |-> candidate.metadata]

\* ------------------------------------------------ stage 1: merge and dedup
HasMovie(list, movie_id) == \E i \in 1..Len(list) : list[i].movie_id = movie_id

\* the inner loop of _generate_candidates over one source's result
RECURSIVE AppendUnseen(_, _)
AppendUnseen(all_candidates, result) ==
    IF result = <<>> THEN all_candidates
    ELSE AppendUnseen(
             IF HasMovie(all_candidates, Head(result).movie_id)
             THEN all_candidates
             ELSE Append(all_candidates, Head(result)),
             Tail(result))

\* variant: the last source merged first
RECURSIVE MergeFromLast(_, _)
MergeFromLast(all_candidates, results) ==
    IF results = <<>> THEN all_candidates
    ELSE LET rest == MergeFromLast(all_candidates, Tail(results))
         IN  IF IsException(Head(results)) THEN rest
             ELSE AppendUnseen(rest, Head(results).list)

\* the outer loop: results in the order of the tasks list, exceptions skipped
RECURSIVE MergeFrom(_, _)
MergeFrom(all_candidates, results) ==
    IF results = <<>> THEN all_candidates
    ELSE MergeFrom(
             IF IsException(Head(results)) THEN all_candidates
             ELSE AppendUnseen(all_candidates, Head(results).list),
             Tail(results))

MergeCandidates(results) == MergeFrom(<<>>, results)

\* ------------------------------------------------------- stage 2: ranking
\* the scoring loop of _rank_candidates: a candidate whose scoring raises is
\* logged and skipped
RECURSIVE ScoreAll(_, _, _, _)
ScoreAll(env, user_id, candidates, context) ==
    IF candidates = <<>> THEN <<>>
    ELSE LET rest == ScoreAll(env, user_id, Tail(candidates), context)
         IN  IF ScoringRaises(Head(candidates)) THEN rest
             ELSE <<ScoredCandidate(env, user_id, Head(candidates), context)>> \o rest

\* list.sort(key=score, reverse=True): stable, equal scores keep their order
RECURSIVE InsertByScore(_, _)
InsertByScore(sorted, x) ==
    IF sorted = <<>> THEN <<x>>
    ELSE IF Head(sorted).score >= x.score
         THEN <<Head(sorted)>> \o InsertByScore(Tail(sorted), x)
         ELSE <<x>> \o sorted

RECURSIVE SortByScore(_)
SortByScore(list) ==
    IF list = <<>> THEN <<>>
    ELSE InsertByScore(SortByScore(SubSeq(list, 1, Len(list) - 1)), list[Len(list)])

rank_candidates(env, user_id, candidates, context) ==
    SortByScore(ScoreAll(env, user_id, candidates, context))

\* ------------------------------------------------- stage 3: diversification
AllGenres ==
    <<"Action", "Adventure", "Animation", "Comedy", "Crime", "Documentary",
      "Drama", "Family", "Fantasy", "History", "Horror", "Music", "Mystery",
      "Romance", "Science Fiction", "TV Movie", "Thriller", "War", "Western">>

\* DiversityOptimizer._extract_features, every entry scaled by 10:
\* one-hot genres, (year - 1900) / 125, rating / 10, popularity / 100
extract_features(candidate) ==
    LET metadata == candidate.metadata
    IN  [i \in 1..Len(AllGenres) |-> IF AllGenres[i] \in metadata.genres THEN 10 ELSE 0]
        \o <<((Get(metadata.release_year, 2000) - 1900) * 10) \div 125,
             Get(metadata.rating, 5),
             Get(metadata.popularity, 50) \div 10>>

Dot(a, b) == SumSeq([i \in 1..Len(a) |-> a[i] * b[i]])

\* DiversityOptimizer._compute_similarity, in units of 1/10000
compute_similarity(features1, features2) ==
    LET dot_product == Dot(features1, features2)
        norm1sq == Dot(features1, features1)
        norm2sq == Dot(features2, features2)
    IN  IF norm1sq = 0 \/ norm2sq = 0 THEN 0
        ELSE (dot_product * 10000 * 40) \div Isqrt(norm1sq * norm2sq * 1600)

RECURSIVE MaxSimilarity(_, _, _)
MaxSimilarity(candidates, idx, selected) ==
    IF selected = <<>> THEN 0
    ELSE Max(compute_similarity(extract_features(candidates[idx]),
                                extract_features(candidates[Head(selected)])),
             MaxSimilarity(candidates, idx, Tail(selected)))

\* lambda (tenths) * relevance - (1 - lambda) * max_similarity, in 1/10^8
MmrScore(candidates, lambda_param, idx, selected) ==
    lambda_param * candidates[idx].score
        - (10 - lambda_param) * MaxSimilarity(candidates, idx, selected) * 1000

\* variant: the last index with the best score
RECURSIVE BestIdxLast(_, _, _, _, _)
BestIdxLast(candidates, lambda_param, remaining, selected, best) ==
    IF remaining = <<>> THEN best
    ELSE LET idx == Head(remaining)
             better == best = 0
                       \/ MmrScore(candidates, lambda_param, idx, selected)
                            >= MmrScore(candidates, lambda_param, best, selected)
         IN  BestIdxLast(candidates, lambda_param, Tail(remaining), selected,
                         IF better THEN idx ELSE best)

\* the for loop over remaining: the first index with the strictly best score
RECURSIVE BestIdx(_, _, _, _, _)
BestIdx(candidates, lambda_param, remaining, selected, best) ==
    IF remaining = <<>> THEN best
    ELSE LET idx == Head(remaining)
             better == best = 0
                       \/ MmrScore(candidates, lambda_param, idx, selected)
                            > MmrScore(candidates, lambda_param, best, selected)
         IN  BestIdx(candidates, lambda_param, Tail(remaining), selected,
                     IF better THEN idx ELSE best)

Without(list, x) == SelectSeq(list, LAMBDA y : y # x)

\* the while loop of apply_mmr; selected and remaining hold indices
RECURSIVE MmrLoop(_, _, _, _, _)
MmrLoop(candidates, lambda_param, top_k, selected, remaining) ==
    IF ~(Len(selected) < top_k /\ remaining # <<>>) THEN selected
    ELSE LET best_idx == BestIdx(candidates, lambda_param, remaining, selected, 0)
         IN  MmrLoop(candidates, lambda_param, top_k,
                     Append(selected, best_idx), Without(remaining, best_idx))

\* DiversityOptimizer.apply_mmr
\* variant: the selection loop also runs on a list no longer than top_k
apply_mmr_loop(candidates, lambda_param, top_k) ==
    IF candidates = <<>> THEN <<>>
    ELSE LET picked == MmrLoop(candidates, lambda_param, top_k, <<1>>,
                               [i \in 1..(Len(candidates) - 1) |-> i + 1])
         IN  [i \in 1..Len(picked) |-> candidates[picked[i]]]

\* DiversityOptimizer.apply_mmr
\* variant: no truncation to top_k
apply_mmr_all(candidates, lambda_param, top_k) == candidates

\* DiversityOptimizer.apply_mmr
apply_mmr(candidates, lambda_param, top_k) ==
    IF candidates = <<>> THEN <<>>
    ELSE IF Len(candidates) <= top_k THEN candidates
    ELSE LET picked == MmrLoop(candidates, lambda_param, top_k, <<1>>,
                               [i \in 1..(Len(candidates) - 1) |-> i + 1])
         IN  [i \in 1..Len(picked) |-> candidates[picked[i]]]

\* the genres of candidate.get("metadata", {}).get("genres", [])
GenresOf(candidate) == candidate.metadata.genres

\* the for loop of ensure_genre_diversity from candidate i on
RECURSIVE GenreLoop(_, _, _, _, _)
GenreLoop(candidates, min_genres, i, genres_covered, diversified) ==
    IF i > Len(candidates) THEN diversified
    ELSE LET candidate == candidates[i]
             genres == GenresOf(candidate)
         IN  IF Cardinality(genres_covered) < min_genres
             THEN IF genres \ genres_covered # {}
                  THEN GenreLoop(candidates, min_genres, i + 1,
                                 genres_covered \cup genres, Append(diversified, candidate))
                  ELSE GenreLoop(candidates, min_genres, i + 1, genres_covered, diversified)
             ELSE GenreLoop(candidates, min_genres, i + 1,
                            genres_covered, Append(diversified, candidate))

\* DiversityOptimizer.ensure_genre_diversity
ensure_genre_diversity(candidates, min_genres) ==
    GenreLoop(candidates, min_genres, 1, {}, <<>>)

\* ---------------------------------------------------- stage 4: explanation
\* max(component_scores.items(), key=score): the first key with the top score
RECURSIVE DominantFrom(_, _, _)
DominantFrom(component_scores, i, best) ==
    IF i > Len(Components) THEN best
    ELSE DominantFrom(component_scores, i + 1,
             IF component_scores[Components[i]] > component_scores[best]
             THEN Components[i] ELSE best)

DominantFactor(component_scores) == DominantFrom(component_scores, 2, Components[1])

\* RecommendationExplainer._generate_template_explanation: the text is fixed
\* by the factor, and for two factors by a percentage printed in it
generate_template_explanation(dominant_factor, factor_score, all_scores) ==
    [kind |-> "template",
     factor |-> dominant_factor,
     pct |-> IF dominant_factor = "collaborative" THEN factor_score \div 1000
             ELSE IF dominant_factor = "sentiment" /\ all_scores.sentiment > 70000
                  THEN all_scores.sentiment \div 1000
             ELSE 0]

\* variant: a failure of the delegate is not caught
generate_llm_explanation_uncaught(llm_ok, component_scores) ==
    IF llm_ok THEN [kind |-> "llm", factor |-> "text", pct |-> 0]
    ELSE [kind |-> "raised", factor |-> "MLModelError", pct |-> 0]

\* RecommendationExplainer._generate_llm_explanation
generate_llm_explanation(llm_ok, component_scores) ==
    IF llm_ok THEN [kind |-> "llm", factor |-> "text", pct |-> 0]
    ELSE generate_template_explanation(Components[1], component_scores[Components[1]],
                                       component_scores)

\* RecommendationExplainer.generate_explanation
generate_explanation(use_llm, llm_ok, component_scores) ==
    IF use_llm THEN generate_llm_explanation(llm_ok, component_scores)
    ELSE generate_template_explanation(DominantFactor(component_scores),
                                       component_scores[DominantFactor(component_scores)],
                                       component_scores)

\* HybridRecommendationEngine._calculate_confidence, in units of 1/100000:
\* 1 / (1 + std / mean) = sum / (sum + sqrt(n * sum of squares - sum^2)),
\* on the scores taken to three decimals.  std = -mean makes the numpy
\* division 1.0 / 0.0, which answers inf: a value above every bound.
calculate_confidence(components) ==
    LET scores == [i \in 1..Len(Components) |-> components[Components[i]] \div 100]
        total == SumSeq(scores)
        squares == SumSeq([i \in 1..Len(scores) |-> scores[i] * scores[i]])
        spread == Isqrt(Len(scores) * squares - total * total)
    IN  IF total = 0 THEN ONE \div 2
        ELSE IF total + spread = 0 THEN 1000 * ONE
        ELSE (total * ONE) \div (total + spread)

Recommendation(candidate, explanation) ==
    [movie_id |-> candidate.movie_id,
     score |-> candidate.score,
     components |-> candidate.components,
     explanation |-> explanation,
     confidence |-> calculate_confidence(candidate.components),
     metadata |-> candidate.metadata]

\* HybridRecommendationEngine._generate_explanations; llm_ok[i] says whether
\* the delegate answers for the i-th candidate
generate_explanations(use_llm, llm_ok, candidates) ==
    [i \in 1..Len(candidates) |->
        Recommendation(candidates[i],
                       generate_explanation(use_llm, llm_ok[i], candidates[i].components))]

\* Recommendation.to_dict: round(x, 4) on score, components and confidence
to_dict(r) ==
    [movie_id |-> r.movie_id,
     score |-> RoundTo(r.score, 1000),
     components |-> [c \in DOMAIN r.components |-> RoundTo(r.components[c], 10)],
     explanation |-> r.explanation,
     confidence |-> RoundTo(r.confidence, 10),
     metadata |-> r.metadata]

Serialize(recommendations) ==
    [i \in 1..Len(recommendations) |-> to_dict(recommendations[i])]

\* ---------------------------------------------------------------- requests
EmptyContext == [hour |-> Absent, is_weekend |-> FALSE, mood |-> "none", device |-> "none"]
NightContext == [hour |-> Num(23), is_weekend |-> TRUE, mood |-> "happy", device |-> "mobile"]
Contexts == {EmptyContext, NightContext}

NoFilters == "{}"
Filters == {NoFilters, "{'genre': 'Drama'}"}

LambdaArgs == {NoValue, Num(0), Num(5), Num(10)}

\* RecommendationRequest.__init__
RecommendationRequest(user_id, top_k, context, filters, diversity_lambda) ==
    [user_id |-> user_id,
     top_k |-> top_k,
     context |-> context,
     filters |-> filters,
     diversity_lambda |-> IF diversity_lambda.k = "null" \/ diversity_lambda.v = 0
                          THEN REC_DIVERSITY_LAMBDA
                          ELSE diversity_lambda.v]

AllRequests ==
    {RecommendationRequest(u, k, c, f, l) :
        u \in Users, k \in 1..MaxTopK, c \in Contexts, f \in Filters, l \in LambdaArgs}

\* hash(str(request.filters)) within one interpreter
FiltersHash(filters) == IF filters = NoFilters THEN "h0" ELSE "h1"

\* HybridRecommendationEngine._get_cache_key
get_cache_key(request) == <<request.user_id, request.top_k, FiltersHash(request.filters)>>

CacheKeys == {get_cache_key(r) : r \in AllRequests}

\* a key of Redis: its value and its time to live (NoValue: no expiry)
NoEntry == [present |-> FALSE, value |-> <<>>, expiry |-> NoValue]

\* RedisClient.set: "if ttl:" - SETEX with a ttl other than 0, a plain SET,
\* which gives the key no expiry, with ttl 0
RedisClientSet(value, ttl) ==
    [present |-> TRUE, value |-> value, expiry |-> IF ttl # 0 THEN Num(ttl) ELSE NoValue]

\* the entry written under the settings' defaults
Entry(value) == RedisClientSet(value, REC_CACHE_TTL)

\* ------------------------------------------------------------- the engines
\* the parameters ContentBasedEngine.get_similar_movies declares, and the
\* keyword arguments _generate_candidates passes to it
ContentBasedEngine == [params |-> {"movie_id", "k", "use_embeddings"}, required |-> {"movie_id"}]
\* a content source with the signature the orchestrator calls,
\* fetch(user_id, k, filters): not in the repository; with it the stages after
\* the fan-out can run
FetchSource == [params |-> {"user_id", "k", "filters"}, required |-> {"user_id"}]
ContentCallKwargs == {"user_id", "k", "filters"}

\* Python raises TypeError when a call does not bind to the signature
Binds(signature, kwargs) == kwargs \subseteq signature.params /\ signature.required \subseteq kwargs

TaskOrder(gnn_on) ==
    IF gnn_on THEN <<"collaborative", "content", "gnn", "trending">>
              ELSE <<"collaborative", "content", "trending">>

Calls == {"first", "second"}

VARIABLES
    scn,              \* what this run draws its inputs from
    cache,            \* Redis: key -> entry
    calls_made,       \* how many times get_recommendations has been called
    is_trained,       \* collaborative_engine.is_trained
    gnn_enabled,      \* settings.FEATURE_GNN_ENABLED (gnn_engine is not None)
    use_llm,          \* explainer.use_llm and explainer.ollama_client
    content_engine,   \* the signature of content_engine.get_similar_movies
    pc,               \* call -> where get_recommendations stands
    request,          \* call -> its RecommendationRequest
    results,          \* call -> source -> what gather holds for its task
    order,            \* call -> the sources in the order they completed
    local,            \* call -> candidates, scored_candidates, diverse_candidates, recommendations
    outcome,          \* call -> what the caller got
    trace             \* call -> what the call did (stages run, cache operations, warnings)

vars == <<scn, cache, calls_made, is_trained, gnn_enabled, use_llm, content_engine,
          pc, request, results, order, local, outcome, trace>>

engine_vars == <<is_trained, gnn_enabled, use_llm, content_engine>>

NoRequest == RecommendationRequest("u1", 1, EmptyContext, NoFilters, NoValue)
NoLocal == [candidates |-> <<>>, scored |-> <<>>, diverse |-> <<>>, recommendations |-> <<>>]
NoOutcome == [kind |-> "none", value |-> <<>>, error |-> "", cause |-> ""]
NoResults == [src \in {"collaborative", "content", "gnn", "trending"} |-> Pending]
NoEnv == [cf_raises |-> FALSE, gnn_raises |-> FALSE]
\* inputs, order, env and llm_ok keep what the backends answered to this call,
\* in a scenario that records it; lambda_arg keeps the diversity_lambda
\* argument the request was constructed with, where the scenario constructs it
\* min_genres keeps the argument ensure_genre_diversity was called with
NoTrace == [hit |-> FALSE, stages |-> {}, cache_ok |-> {}, cache_failed |-> {},
            warnings |-> {}, unique |-> 0,
            inputs |-> NoResults, order |-> <<>>, env |-> NoEnv, llm_ok |-> <<>>,
            lambda_arg |-> NoValue, min_genres |-> NoValue]

ListOutcome(value) == [kind |-> "list", value |-> value, error |-> "", cause |-> ""]
\* except Exception as e: raise MLModelError("HybridRecommendationEngine", str(e))
ErrorOutcome(cause) == [kind |-> "error", value |-> <<>>, error |-> "MLModelError", cause |-> cause]

InitCommon ==
    /\ cache = [key \in CacheKeys |-> NoEntry]
    /\ calls_made = 0
    /\ is_trained = FALSE
    /\ pc = [c \in Calls |-> "idle"]
    /\ request = [c \in Calls |-> NoRequest]
    /\ results = [c \in Calls |-> NoResults]
    /\ order = [c \in Calls |-> <<>>]
    /\ local = [c \in Calls |-> NoLocal]
    /\ outcome = [c \in Calls |-> NoOutcome]
    /\ trace = [c \in Calls |-> NoTrace]

InFlight(c) == pc[c] \notin {"idle", "done"}

\* ------------------------------------------------------ get_recommendations
\* a caller invokes get_recommendations(request)
Call(c, req) ==
    /\ c \in scn.calls
    /\ ~InFlight(c)
    /\ req \in scn.requests
    /\ calls_made < scn.max_calls
    /\ scn.replay => IF c = "first" THEN calls_made = 0
                     ELSE pc["first"] = "done" /\ req = request["first"]
    /\ scn.sequential => IF c = "first" THEN calls_made = 0 ELSE pc["first"] = "done"
    /\ calls_made' = calls_made + 1
    /\ pc' = [pc EXCEPT ![c] = "cache_get"]
    /\ request' = [request EXCEPT ![c] = req]
    /\ local' = [local EXCEPT ![c] = NoLocal]
    /\ outcome' = [outcome EXCEPT ![c] = NoOutcome]
    /\ trace' = [trace EXCEPT ![c] = NoTrace]
    /\ UNCHANGED <<scn, cache, engine_vars, results, order>>

\* a caller invokes _generate_candidates(user_id, k, filters) on its own
GenerateCandidates(c, req) ==
    /\ c \in scn.calls
    /\ ~InFlight(c)
    /\ req \in scn.requests
    /\ calls_made < scn.max_calls
    /\ calls_made' = calls_made + 1
    /\ pc' = [pc EXCEPT ![c] = "fanout"]
    /\ request' = [request EXCEPT ![c] = req]
    /\ local' = [local EXCEPT ![c] = NoLocal]
    /\ outcome' = [outcome EXCEPT ![c] = NoOutcome]
    /\ trace' = [trace EXCEPT ![c] = NoTrace]
    /\ UNCHANGED <<scn, cache, engine_vars, results, order>>

\* the candidate lists a caller may hand to _rank_candidates
CandidateLists ==
    LET all == {Candidate(src, m) : src \in {"collaborative", "content", "gnn", "trending"},
                                    m \in Movies}
    IN  {<<>>} \cup {<<x>> : x \in all} \cup {l \in {<<x, y>> : x \in all, y \in all} : l[1] # l[2]}

\* a caller invokes _rank_candidates(user_id, candidates, context) on its own
RankCandidates(c, req, candidates) ==
    /\ c \in scn.calls
    /\ ~InFlight(c)
    /\ req \in scn.requests
    /\ calls_made < scn.max_calls
    /\ calls_made' = calls_made + 1
    /\ pc' = [pc EXCEPT ![c] = "rank"]
    /\ request' = [request EXCEPT ![c] = req]
    /\ local' = [local EXCEPT ![c] = [NoLocal EXCEPT !.candidates = candidates]]
    /\ outcome' = [outcome EXCEPT ![c] = NoOutcome]
    /\ trace' = [trace EXCEPT ![c] = NoTrace]
    /\ UNCHANGED <<scn, cache, engine_vars, results, order>>

\* RedisClient.get_json: a failed GET is logged and answers None
get_json(redis_ok, key) == IF redis_ok THEN cache[key] ELSE NoEntry

\* "if cached:" - a cached empty list is falsy
IsHit(cached) == cached.present /\ cached.value # <<>>

\* cached = await self.cache_manager.get(cache_key); if cached: return ...
CacheGet(c) ==
    /\ pc[c] = "cache_get"
    /\ \E redis_ok \in BOOLEAN :
          LET cached == get_json(redis_ok, get_cache_key(request[c]))
              op == IF redis_ok THEN "cache_ok" ELSE "cache_failed"
          IN  IF IsHit(cached)
              THEN /\ pc' = [pc EXCEPT ![c] = "done"]
                   /\ outcome' = [outcome EXCEPT ![c] = ListOutcome(cached.value)]
                   /\ trace' = [trace EXCEPT ![c].hit = TRUE, ![c].cache_ok = @ \cup {"get"}]
              ELSE /\ pc' = [pc EXCEPT ![c] = "fanout"]
                   /\ outcome' = outcome
                   /\ trace' = [trace EXCEPT ![c][op] = @ \cup {"get"}]
    /\ UNCHANGED <<scn, cache, calls_made, engine_vars, request, results, order, local>>

\* _generate_candidates builds its tasks list: calling an async method with
\* keyword arguments it does not declare raises TypeError at the call, before
\* gather; get_recommendations turns it into MLModelError
CreateTasks(c) ==
    /\ pc[c] = "fanout"
    /\ IF Binds(content_engine, ContentCallKwargs)
       THEN /\ pc' = [pc EXCEPT ![c] = "gather"]
            /\ results' = [results EXCEPT ![c] = NoResults]
            /\ order' = [order EXCEPT ![c] = <<>>]
            /\ outcome' = outcome
            /\ trace' = [trace EXCEPT ![c].stages = @ \cup {"sources"}]
       ELSE /\ pc' = [pc EXCEPT ![c] = "done"]
            /\ outcome' = [outcome EXCEPT ![c] = ErrorOutcome("TypeError")]
            /\ trace' = [trace EXCEPT ![c].stages = @ \cup {"sources"}]
            /\ UNCHANGED <<results, order>>
    /\ UNCHANGED <<scn, cache, calls_made, engine_vars, request, local>>

\* what one source can hand back to gather
SourceOutcomes(src) ==
    CASE src = "collaborative" ->
            \* get_similar_users_movies: [] when untrained or on any error
            IF is_trained
            THEN {Returned(l) : l \in SourceLists(src, scn.srclen, scn.movies)}
            ELSE {Returned(<<>>)}
      [] src = "content" ->
            {Exc} \cup {Returned(l) : l \in SourceLists(src, scn.srclen, scn.movies)}
      [] src = "gnn" ->
            \* get_graph_recommendations: [] on any error
            {Returned(l) : l \in SourceLists(src, scn.srclen, scn.movies)}
      [] OTHER ->
            \* _get_trending_movies
            {Returned(<<>>)}

\* one task of the gather completes
SourceReturns(c, src) ==
    /\ pc[c] = "gather"
    /\ src \in SeqToSet(TaskOrder(gnn_enabled))
    /\ results[c][src] = Pending
    /\ scn.replay /\ c = "first" => src = TaskOrder(gnn_enabled)[Len(order[c]) + 1]
    /\ \E result \in SourceOutcomes(src) :
          /\ scn.replay /\ c = "second" => result = trace["first"].inputs[src]
          /\ results' = [results EXCEPT ![c][src] = result]
    /\ order' = [order EXCEPT ![c] =
                     IF scn.track_order = "all" \/ (scn.track_order = "first" /\ @ = <<>>)
                     THEN Append(@, src) ELSE @]
    /\ UNCHANGED <<scn, cache, calls_made, engine_vars, pc, request, local, outcome, trace>>

GatherDone(c) == \A src \in SeqToSet(TaskOrder(gnn_enabled)) : results[c][src] # Pending

\* variant: the results in the order the tasks completed
GatherResultsAsCompleted(c) ==
    [i \in 1..Len(order[c]) |-> results[c][order[c][i]]]

\* gather's result list is in the order of the tasks list
GatherResults(c) ==
    [i \in 1..Len(TaskOrder(gnn_enabled)) |-> results[c][TaskOrder(gnn_enabled)[i]]]

\* the movie ids the sources that did not raise reported
ReportedMovies(gathered) ==
    UNION {{gathered[i].list[j].movie_id : j \in 1..Len(gathered[i].list)} :
              i \in {x \in 1..Len(gathered) : ~IsException(gathered[x])}}

\* gather returns; merge and dedup; "if not candidates: raise ResourceNotFoundError"
Merge(c) ==
    /\ pc[c] = "gather"
    /\ GatherDone(c)
    /\ LET all_candidates == MergeCandidates(GatherResults(c))
           raised == {src \in SeqToSet(TaskOrder(gnn_enabled)) : IsException(results[c][src])}
       IN  /\ local' = [local EXCEPT ![c].candidates = all_candidates]
           /\ trace' = [trace EXCEPT ![c].warnings = raised,
                                     ![c].unique = Cardinality(ReportedMovies(GatherResults(c))),
                                     ![c].stages = @ \cup {"merge"},
                                     ![c].inputs = IF scn.record THEN results[c] ELSE @,
                                     ![c].order = IF scn.record THEN order[c] ELSE @]
           /\ IF all_candidates = <<>>
              THEN /\ pc' = [pc EXCEPT ![c] = "done"]
                   /\ outcome' = [outcome EXCEPT ![c] = ErrorOutcome("ResourceNotFoundError")]
              ELSE /\ pc' = [pc EXCEPT ![c] = "rank"]
                   /\ outcome' = outcome
    /\ results' = [results EXCEPT ![c] = NoResults]
    /\ order' = [order EXCEPT ![c] = <<>>]
    /\ UNCHANGED <<scn, cache, calls_made, engine_vars, request>>

\* stage 2: _rank_candidates; the backends may fail for this call
Rank(c) ==
    /\ pc[c] = "rank"
    /\ \E cf_raises \in (IF is_trained /\ scn.failures THEN BOOLEAN ELSE {FALSE}),
          gnn_raises \in (IF gnn_enabled /\ scn.failures THEN BOOLEAN ELSE {FALSE}) :
          LET env == [is_trained |-> is_trained, cf_raises |-> cf_raises,
                      gnn_enabled |-> gnn_enabled, gnn_raises |-> gnn_raises]
              drawn == [cf_raises |-> cf_raises, gnn_raises |-> gnn_raises]
          IN  /\ scn.replay /\ c = "second" => drawn = trace["first"].env
              /\ local' = [local EXCEPT ![c].scored =
                              rank_candidates(env, request[c].user_id,
                                              local[c].candidates, request[c].context)]
              /\ trace' = [trace EXCEPT ![c].stages = @ \cup {"rank"},
                                        ![c].env = IF scn.record THEN drawn ELSE @]
    /\ pc' = [pc EXCEPT ![c] = "diversify"]
    /\ UNCHANGED <<scn, cache, calls_made, engine_vars, request, results, order, outcome>>

\* stage 3: diversity_optimizer.apply_mmr
Diversify(c) ==
    /\ pc[c] = "diversify"
    /\ local' = [local EXCEPT ![c].diverse =
                    apply_mmr(local[c].scored, request[c].diversity_lambda, request[c].top_k)]
    /\ pc' = [pc EXCEPT ![c] = "explain"]
    /\ trace' = [trace EXCEPT ![c].stages = @ \cup {"diversify"}]
    /\ UNCHANGED <<scn, cache, calls_made, engine_vars, request, results, order, outcome>>

\* stage 4: _generate_explanations; the delegate may fail for any candidate
Explain(c) ==
    /\ pc[c] = "explain"
    /\ \E llm_ok \in [1..Len(local[c].diverse) -> (IF use_llm /\ scn.failures THEN BOOLEAN ELSE {TRUE})] :
          /\ scn.replay /\ c = "second" => llm_ok = trace["first"].llm_ok
          /\ local' = [local EXCEPT ![c].recommendations =
                          generate_explanations(use_llm, llm_ok, local[c].diverse)]
          /\ trace' = [trace EXCEPT ![c].stages = @ \cup {"explain"},
                                    ![c].llm_ok = IF scn.record THEN llm_ok ELSE @]
    /\ pc' = [pc EXCEPT ![c] = "cache_set"]
    /\ UNCHANGED <<scn, cache, calls_made, engine_vars, request, results, order, outcome>>

\* CacheManager.set: the configured default when no ttl is given
CacheManagerSet(value, ttl) ==
    RedisClientSet(value, IF ttl = NoValue THEN scn.cache_default_ttl ELSE ttl.v)

\* variant: the call fails after the entry is written
CacheSetThenFail(c) ==
    /\ pc[c] = "cache_set"
    /\ cache' = [cache EXCEPT ![get_cache_key(request[c])] =
                    CacheManagerSet(Serialize(local[c].recommendations),
                                    Num(scn.rec_cache_ttl))]
    /\ trace' = [trace EXCEPT ![c].cache_ok = @ \cup {"set"}]
    /\ outcome' = [outcome EXCEPT ![c] = ErrorOutcome("RuntimeError")]
    /\ pc' = [pc EXCEPT ![c] = "done"]
    /\ local' = [local EXCEPT ![c] = NoLocal]
    /\ UNCHANGED <<scn, calls_made, engine_vars, request, results, order>>

\* await self.cache_manager.set(..., ttl=settings.REC_CACHE_TTL); return
\* recommendations.  A failed SET
\* is logged and answers False.
CacheSet(c) ==
    /\ pc[c] = "cache_set"
    /\ \E redis_ok \in BOOLEAN :
          IF redis_ok
          THEN /\ cache' = [cache EXCEPT ![get_cache_key(request[c])] =
                               CacheManagerSet(Serialize(local[c].recommendations),
                                               Num(scn.rec_cache_ttl))]
               /\ trace' = [trace EXCEPT ![c].cache_ok = @ \cup {"set"}]
          ELSE /\ cache' = cache
               /\ trace' = [trace EXCEPT ![c].cache_failed = @ \cup {"set"}]
    /\ outcome' = [outcome EXCEPT ![c] = ListOutcome(local[c].recommendations)]
    /\ pc' = [pc EXCEPT ![c] = "done"]
    /\ local' = [local EXCEPT ![c] = NoLocal]
    /\ UNCHANGED <<scn, calls_made, engine_vars, request, results, order>>

\* ------------------------------------------------------------ environment
\* the TTL of an entry elapses
Expire(key) ==
    /\ cache[key].present
    /\ cache[key].expiry # NoValue
    /\ \A c \in Calls : ~InFlight(c)
    /\ cache' = [cache EXCEPT ![key] = NoEntry]
    /\ UNCHANGED <<scn, calls_made, engine_vars, pc, request, results, order, local, outcome, trace>>

\* CollaborativeFilteringEngine.load_model on the engine's collaborative_engine,
\* at start-up
LoadModel ==
    /\ ~is_trained
    /\ calls_made = 0
    /\ is_trained' = TRUE
    /\ UNCHANGED <<scn, cache, calls_made, gnn_enabled, use_llm, content_engine,
                   pc, request, results, order, local, outcome, trace>>

Next ==
    \/ \E c \in Calls, req \in scn.requests : Call(c, req)
    \/ \E c \in Calls : CacheGet(c)
    \/ \E c \in Calls : CreateTasks(c)
    \/ \E c \in Calls, src \in {"collaborative", "content", "gnn", "trending"} : SourceReturns(c, src)
    \/ \E c \in Calls : Merge(c)
    \/ \E c \in Calls : Rank(c)
    \/ \E c \in Calls : Diversify(c)
    \/ \E c \in Calls : Explain(c)
    \/ \E c \in Calls : CacheSet(c)
    \/ \E key \in CacheKeys : Expire(key)
    \/ LoadModel

\* ------------------------------------------------------------ specifications
RequestA == RecommendationRequest("u1", MaxTopK, EmptyContext, NoFilters, NoValue)
RequestB == RecommendationRequest("u1", MaxTopK, NightContext, NoFilters, Num(10))
RequestC == RecommendationRequest("u2", 1, EmptyContext, NoFilters, Num(5))

\* get_recommendations called twice in a row; the engine as constructed
\* (ContentBasedEngine) or with a content source that takes the call
Init ==
    /\ InitCommon
    /\ gnn_enabled = TRUE
    /\ use_llm = TRUE
    /\ content_engine \in {ContentBasedEngine, FetchSource}
    /\ scn = [calls |-> {"first"}, requests |-> {RequestA, RequestB, RequestC}, srclen |-> 1,
              movies |-> {1, 2}, failures |-> FALSE,
              max_calls |-> 2, track_order |-> "none", record |-> FALSE, replay |-> FALSE,
              sequential |-> FALSE,
              rec_cache_ttl |-> REC_CACHE_TTL, cache_default_ttl |-> CACHE_DEFAULT_TTL]

Spec == Init /\ [][Next]_vars

\* one call on a cold cache: the sources answer with any lists, the scoring
\* backends and the explanation delegate may fail
InitCold ==
    /\ InitCommon
    /\ gnn_enabled \in BOOLEAN
    /\ use_llm = TRUE
    /\ content_engine \in {ContentBasedEngine, FetchSource}
    /\ scn = [calls |-> {"first"}, requests |-> {RequestA, RequestC}, srclen |-> MaxSrcLen,
              movies |-> Movies, failures |-> TRUE,
              max_calls |-> 1, track_order |-> "none", record |-> FALSE, replay |-> FALSE,
              sequential |-> FALSE,
              rec_cache_ttl |-> REC_CACHE_TTL, cache_default_ttl |-> CACHE_DEFAULT_TTL]

SpecCold == InitCold /\ [][Next]_vars

\* _generate_candidates on its own: the source tasks complete in any order,
\* of which the call keeps the first to complete
InitMerge ==
    /\ InitCommon
    /\ gnn_enabled \in BOOLEAN
    /\ use_llm = TRUE
    /\ content_engine \in {ContentBasedEngine, FetchSource}
    /\ scn = [calls |-> {"first"}, requests |-> {RequestA}, srclen |-> MaxSrcLen,
              movies |-> Movies, failures |-> TRUE,
              max_calls |-> 1, track_order |-> "first", record |-> TRUE, replay |-> FALSE,
              sequential |-> FALSE,
              rec_cache_ttl |-> REC_CACHE_TTL, cache_default_ttl |-> CACHE_DEFAULT_TTL]

NextMerge ==
    \/ \E c \in Calls, req \in scn.requests : GenerateCandidates(c, req)
    \/ \E c \in Calls : CreateTasks(c)
    \/ \E c \in Calls, src \in {"collaborative", "content", "gnn", "trending"} : SourceReturns(c, src)
    \/ \E c \in Calls : Merge(c)
    \/ LoadModel

SpecMerge == InitMerge /\ [][NextMerge]_vars

\* _rank_candidates on its own, on the engine as constructed or with the
\* collaborative model loaded, the graph engine on or off
InitRank ==
    /\ InitCommon
    /\ gnn_enabled \in BOOLEAN
    /\ use_llm = TRUE
    /\ content_engine = ContentBasedEngine
    /\ scn = [calls |-> {"first"}, requests |-> {RequestA, RequestB, RequestC}, srclen |-> MaxSrcLen,
              movies |-> Movies, failures |-> TRUE,
              max_calls |-> 1, track_order |-> "none", record |-> TRUE, replay |-> FALSE,
              sequential |-> FALSE,
              rec_cache_ttl |-> REC_CACHE_TTL, cache_default_ttl |-> CACHE_DEFAULT_TTL]

NextRank ==
    \/ \E c \in Calls, req \in scn.requests, candidates \in CandidateLists :
          RankCandidates(c, req, candidates)
    \/ \E c \in Calls : Rank(c)
    \/ LoadModel

SpecRank == InitRank /\ [][NextRank]_vars

\* the same request twice, every backend answering the second call as it
\* answered the first; the source tasks of the first call complete in task
\* order, those of the second in any order
InitReplay ==
    /\ InitCommon
    /\ gnn_enabled = TRUE
    /\ use_llm = TRUE
    /\ content_engine \in {ContentBasedEngine, FetchSource}
    /\ scn = [calls |-> Calls, requests |-> {RequestA}, srclen |-> 1,
              movies |-> Movies, failures |-> FALSE,
              max_calls |-> 2, track_order |-> "all", record |-> TRUE, replay |-> TRUE,
              sequential |-> FALSE,
              rec_cache_ttl |-> REC_CACHE_TTL, cache_default_ttl |-> CACHE_DEFAULT_TTL]

SpecReplay == InitReplay /\ [][Next]_vars
\* ------------------------------------------- apply_mmr invoked on its own
\* a scored candidate as _rank_candidates hands it to apply_mmr, its metadata
\* carrying genres, release year, rating and popularity
Scored(movie_id, score, genres, release_year, rating, popularity) ==
    [movie_id |-> movie_id,
     score |-> score,
     components |-> [k \in SeqToSet(Components) |-> 0],
     metadata |-> [genres |-> genres, release_year |-> release_year,
                   rating |-> rating, popularity |-> popularity]]

GenreRange(lo, hi) == {AllGenres[i] : i \in lo..hi}

\* Five scored candidates. 1, 2 and 3 carry ten genres each, 1 sharing eight
\* with 2 and one with 3 (cosine 0.8 and 0.1), and nothing but genres; 4 ties
\* with 2 and 5 with 3 on the score; 5 is an unrated film of 1888, whose
\* year feature (year - 1900) / 125 is negative.
ScoredPool ==
    {Scored(1, 9000000, GenreRange(1, 10), Num(1900), Num(0), Num(0)),
     Scored(2, 8500000, GenreRange(1, 8) \cup GenreRange(11, 12), Num(1900), Num(0), Num(0)),
     Scored(3, 5000000, GenreRange(10, 19), Num(1900), Num(0), Num(0)),
     Scored(4, 8500000, {"Mystery"}, Absent, Absent, Absent),
     Scored(5, 5000000, {}, Num(1888), Num(0), Num(0))}

\* lists of distinct pool members of length <= n, best score first
RECURSIVE SortedLists(_)
SortedLists(n) ==
    IF n = 0 THEN {<<>>}
    ELSE LET shorter == SortedLists(n - 1)
         IN  shorter \cup
             UNION {{Append(l, x) : x \in {z \in ScoredPool :
                                              \A i \in 1..(n - 1) :
                                                  /\ l[i] # z
                                                  /\ l[i].score >= z.score}} :
                       l \in {y \in shorter : Len(y) = n - 1}}

\* lambda_param in tenths
LambdaParams == {0, 5, REC_DIVERSITY_LAMBDA, 10}

\* a caller invokes apply_mmr(candidates, lambda_param, top_k) on a list
\* sorted by score
ApplyMmr(c, candidates, lambda_param, top_k) ==
    /\ c \in scn.calls
    /\ ~InFlight(c)
    /\ calls_made < scn.max_calls
    /\ calls_made' = calls_made + 1
    /\ pc' = [pc EXCEPT ![c] = "diversify"]
    /\ request' = [request EXCEPT ![c] = [NoRequest EXCEPT !.top_k = top_k,
                                                             !.diversity_lambda = lambda_param]]
    /\ local' = [local EXCEPT ![c] = [NoLocal EXCEPT !.scored = candidates]]
    /\ outcome' = [outcome EXCEPT ![c] = NoOutcome]
    /\ trace' = [trace EXCEPT ![c] = NoTrace]
    /\ UNCHANGED <<scn, cache, engine_vars, results, order>>

InitMmr ==
    /\ InitCommon
    /\ gnn_enabled = TRUE
    /\ use_llm = TRUE
    /\ content_engine = ContentBasedEngine
    /\ scn = [calls |-> {"first"}, requests |-> {}, srclen |-> MaxSrcLen,
              movies |-> Movies, failures |-> FALSE,
              max_calls |-> 1, track_order |-> "none", record |-> FALSE, replay |-> FALSE,
              sequential |-> FALSE,
              rec_cache_ttl |-> REC_CACHE_TTL, cache_default_ttl |-> CACHE_DEFAULT_TTL]

NextMmr ==
    \/ \E c \in Calls, candidates \in SortedLists(MaxTopK + 2),
          lambda_param \in LambdaParams, top_k \in 1..MaxTopK :
          ApplyMmr(c, candidates, lambda_param, top_k)
    \/ \E c \in Calls : Diversify(c)

SpecMmr == InitMmr /\ [][NextMmr]_vars

\* -------------------------- stage 3 for a request constructed by the caller
\* the diversity_lambda arguments a caller may construct a request with:
\* none, 0.0, 0.3, 1.0, and the out-of-range 1.5 and -0.5 (tenths)
SuppliedLambdas == {NoValue, Num(0), Num(3), Num(10), Num(15), Num(-5)}

\* RecommendationRequest(user_id, top_k, diversity_lambda=...) is constructed
\* and get_recommendations reaches stage 3 with the ranked list scored
DiversifyFor(c, diversity_lambda, top_k, scored) ==
    /\ c \in scn.calls
    /\ ~InFlight(c)
    /\ calls_made < scn.max_calls
    /\ calls_made' = calls_made + 1
    /\ pc' = [pc EXCEPT ![c] = "diversify"]
    /\ request' = [request EXCEPT ![c] =
                      RecommendationRequest("u1", top_k, EmptyContext, NoFilters, diversity_lambda)]
    /\ local' = [local EXCEPT ![c] = [NoLocal EXCEPT !.scored = scored]]
    /\ outcome' = [outcome EXCEPT ![c] = NoOutcome]
    /\ trace' = [trace EXCEPT ![c] = [NoTrace EXCEPT !.lambda_arg = diversity_lambda]]
    /\ UNCHANGED <<scn, cache, engine_vars, results, order>>

NextLambda ==
    \/ \E c \in Calls, diversity_lambda \in SuppliedLambdas, top_k \in 1..MaxTopK,
          scored \in SortedLists(MaxTopK + 1) :
          DiversifyFor(c, diversity_lambda, top_k, scored)
    \/ \E c \in Calls : Diversify(c)

SpecLambda == InitMmr /\ [][NextLambda]_vars

\* two calls one after the other, the second by a request that differs from
\* the first in the diversity coefficient (and the context) only
InitShared ==
    /\ InitCommon
    /\ gnn_enabled = TRUE
    /\ use_llm = TRUE
    /\ content_engine \in {ContentBasedEngine, FetchSource}
    /\ scn = [calls |-> Calls, requests |-> {RequestA, RequestB}, srclen |-> 1,
              movies |-> {1, 2}, failures |-> FALSE,
              max_calls |-> 2, track_order |-> "none", record |-> FALSE, replay |-> FALSE,
              sequential |-> TRUE,
              rec_cache_ttl |-> REC_CACHE_TTL, cache_default_ttl |-> CACHE_DEFAULT_TTL]

SpecShared == InitShared /\ [][Next]_vars

\* ----------------------------- stage 4 onwards, the delegate free to fail
\* get_recommendations reaches stage 4 with the diversified list diverse
ExplainFor(c, req, diverse) ==
    /\ c \in scn.calls
    /\ ~InFlight(c)
    /\ req \in scn.requests
    /\ Len(diverse) <= req.top_k
    /\ calls_made < scn.max_calls
    /\ calls_made' = calls_made + 1
    /\ pc' = [pc EXCEPT ![c] = "explain"]
    /\ request' = [request EXCEPT ![c] = req]
    /\ local' = [local EXCEPT ![c] = [NoLocal EXCEPT !.diverse = diverse]]
    /\ outcome' = [outcome EXCEPT ![c] = NoOutcome]
    /\ trace' = [trace EXCEPT ![c] = NoTrace]
    /\ UNCHANGED <<scn, cache, engine_vars, results, order>>

InitExplain ==
    /\ InitCommon
    /\ gnn_enabled = TRUE
    /\ use_llm \in BOOLEAN
    /\ content_engine = ContentBasedEngine
    /\ scn = [calls |-> {"first"}, requests |-> {RequestA, RequestC}, srclen |-> MaxSrcLen,
              movies |-> Movies, failures |-> TRUE,
              max_calls |-> 1, track_order |-> "none", record |-> TRUE, replay |-> FALSE,
              sequential |-> FALSE,
              rec_cache_ttl |-> REC_CACHE_TTL, cache_default_ttl |-> CACHE_DEFAULT_TTL]

NextExplain ==
    \/ \E c \in Calls, req \in scn.requests, diverse \in SortedLists(MaxTopK) :
          ExplainFor(c, req, diverse)
    \/ \E c \in Calls : Explain(c)
    \/ \E c \in Calls : CacheSet(c)

SpecExplain == InitExplain /\ [][NextExplain]_vars

\* ------------------------------------- confidence of one component-score map
\* Component-score maps over the values each component can take: a clamped
\* or fallback collaborative prediction, a Jaccard content similarity, a
\* graph cosine in [-1, 1], the movie's sentiment in [-1, 1], a popularity
\* capped at 1, a context score of at least 0.5.
ComponentMaps ==
    [collaborative : {0, ONE \div 2, ONE, 3 * ONE},
     content : {0, ONE \div 2, ONE},
     gnn : {-10 * 9871, -4 * 9871, 0, 6 * 9871},
     sentiment : {-ONE, 0, 80000},
     popularity : {0, ONE},
     context : {ONE \div 2, ONE}]

ScoredWith(components) ==
    [Scored(1, WeightedSum(components), {}, Absent, Absent, Absent)
        EXCEPT !.components = components]

InitConfidence ==
    /\ InitCommon
    /\ gnn_enabled = TRUE
    /\ use_llm \in BOOLEAN
    /\ content_engine = ContentBasedEngine
    /\ scn = [calls |-> {"first"}, requests |-> {RequestA}, srclen |-> MaxSrcLen,
              movies |-> Movies, failures |-> FALSE,
              max_calls |-> 1, track_order |-> "none", record |-> FALSE, replay |-> FALSE,
              sequential |-> FALSE,
              rec_cache_ttl |-> REC_CACHE_TTL, cache_default_ttl |-> CACHE_DEFAULT_TTL]

NextConfidence ==
    \/ \E c \in Calls, req \in scn.requests, components \in ComponentMaps :
          ExplainFor(c, req, <<ScoredWith(components)>>)
    \/ \E c \in Calls : Explain(c)

SpecConfidence == InitConfidence /\ [][NextConfidence]_vars

\* ------------------------------------------- progress of get_recommendations
\* One call on a cold cache.  The event loop runs every step of the call that
\* is ready, and the collaborative, content and trending sources answer; the
\* graph source awaits the cache and the graph store and may never answer.
\* _generate_candidates awaits asyncio.gather(*tasks) with no timeout.
InitHang ==
    /\ InitCommon
    /\ gnn_enabled = TRUE
    /\ use_llm = TRUE
    /\ content_engine \in {ContentBasedEngine, FetchSource}
    /\ scn = [calls |-> {"first"}, requests |-> {RequestA, RequestC}, srclen |-> 1,
              movies |-> {1, 2}, failures |-> FALSE,
              max_calls |-> 1, track_order |-> "none", record |-> FALSE, replay |-> FALSE,
              sequential |-> FALSE,
              rec_cache_ttl |-> REC_CACHE_TTL, cache_default_ttl |-> CACHE_DEFAULT_TTL]

RespondingSources == {"collaborative", "content", "trending"}

EngineProgress ==
    \A c \in Calls :
        /\ WF_vars(CacheGet(c))
        /\ WF_vars(CreateTasks(c))
        /\ WF_vars(Merge(c))
        /\ WF_vars(Rank(c))
        /\ WF_vars(Diversify(c))
        /\ WF_vars(Explain(c))
        /\ WF_vars(CacheSet(c))
        /\ \A src \in RespondingSources : WF_vars(SourceReturns(c, src))

SpecHang == InitHang /\ [][Next]_vars /\ EngineProgress

\* two calls by the same request that may overlap in any way: the event loop
\* interleaves their steps at every await
InitConcurrent ==
    /\ InitCommon
    /\ gnn_enabled = FALSE
    /\ use_llm = TRUE
    /\ content_engine \in {ContentBasedEngine, FetchSource}
    /\ scn = [calls |-> Calls, requests |-> {RequestA}, srclen |-> 1,
              movies |-> {1, 2}, failures |-> FALSE,
              max_calls |-> 2, track_order |-> "none", record |-> FALSE, replay |-> FALSE,
              sequential |-> FALSE,
              rec_cache_ttl |-> REC_CACHE_TTL, cache_default_ttl |-> CACHE_DEFAULT_TTL]

SpecConcurrent == InitConcurrent /\ [][Next]_vars

\* the explanation of one candidate, over every component-score map, the
\* delegate free to fail
InitTemplate ==
    /\ InitCommon
    /\ gnn_enabled = TRUE
    /\ use_llm \in BOOLEAN
    /\ content_engine = ContentBasedEngine
    /\ scn = [calls |-> {"first"}, requests |-> {RequestA}, srclen |-> MaxSrcLen,
              movies |-> Movies, failures |-> TRUE,
              max_calls |-> 1, track_order |-> "none", record |-> TRUE, replay |-> FALSE,
              sequential |-> FALSE,
              rec_cache_ttl |-> REC_CACHE_TTL, cache_default_ttl |-> CACHE_DEFAULT_TTL]

SpecTemplate == InitTemplate /\ [][NextConfidence]_vars

\* ----------------------------------- the confidences of two candidates
\* component-score maps in which the graph, sentiment and popularity
\* components may be 0 (engine off, field absent)
ComparedMaps ==
    [collaborative : {90000},
     content : {10000, 88000, 90000},
     gnn : {0, 50000, 91000},
     sentiment : {0, 80000},
     popularity : {0},
     context : {ONE \div 2, 90000}]

InitCompare ==
    /\ InitCommon
    /\ gnn_enabled = TRUE
    /\ use_llm \in BOOLEAN
    /\ content_engine = ContentBasedEngine
    /\ scn = [calls |-> {"first"}, requests |-> {RequestA}, srclen |-> MaxSrcLen,
              movies |-> Movies, failures |-> FALSE,
              max_calls |-> 1, track_order |-> "none", record |-> FALSE, replay |-> FALSE,
              sequential |-> FALSE,
              rec_cache_ttl |-> REC_CACHE_TTL, cache_default_ttl |-> CACHE_DEFAULT_TTL]

NextCompare ==
    \/ \E c \in Calls, req \in scn.requests, m1 \in ComparedMaps, m2 \in ComparedMaps :
          ExplainFor(c, req, <<ScoredWith(m1), [ScoredWith(m2) EXCEPT !.movie_id = 2]>>)
    \/ \E c \in Calls : Explain(c)

SpecCompare == InitCompare /\ [][NextCompare]_vars

\* ------------------------------------- apply_mmr on lists in any order
\* lists of distinct pool members of length <= n, in any order
RECURSIVE AnyLists(_)
AnyLists(n) ==
    IF n = 0 THEN {<<>>}
    ELSE LET shorter == AnyLists(n - 1)
         IN  shorter \cup
             UNION {{Append(l, x) : x \in {z \in ScoredPool :
                                              \A i \in 1..(n - 1) : l[i] # z}} :
                       l \in {y \in shorter : Len(y) = n - 1}}

InitShort == InitMmr

NextShort ==
    \/ \E c \in Calls, candidates \in AnyLists(MaxTopK + 1),
          lambda_param \in LambdaParams, top_k \in 1..(MaxTopK + 2) :
          ApplyMmr(c, candidates, lambda_param, top_k)
    \/ \E c \in Calls : Diversify(c)

SpecShort == InitShort /\ [][NextShort]_vars

\* ------------------------------------------------- the TTL of the entries
\* values REC_CACHE_TTL and CACHE_DEFAULT_TTL may be configured to (seconds)
ConfiguredTtls == {0, 60, REC_CACHE_TTL}

\* a caller invokes cache_manager.set(key, value, ttl) on a key of the
\* result cache, with a ttl or with none
Set(key, value, ttl) ==
    /\ key \in {get_cache_key(r) : r \in scn.requests}
    /\ cache' = [cache EXCEPT ![key] = CacheManagerSet(value, ttl)]
    /\ UNCHANGED <<scn, calls_made, engine_vars, pc, request, results, order, local,
                   outcome, trace>>

InitTtl ==
    /\ InitCommon
    /\ gnn_enabled = TRUE
    /\ use_llm = TRUE
    /\ content_engine = FetchSource
    /\ \E rec_ttl \in ConfiguredTtls, default_ttl \in ConfiguredTtls :
          scn = [calls |-> Calls, requests |-> {RequestA}, srclen |-> 1,
                 movies |-> {1}, failures |-> FALSE,
                 max_calls |-> 2, track_order |-> "none", record |-> FALSE, replay |-> FALSE,
                 sequential |-> TRUE,
                 rec_cache_ttl |-> rec_ttl, cache_default_ttl |-> default_ttl]

NextTtl ==
    \/ Next
    \/ \E key \in CacheKeys, ttl \in {NoValue, Num(60)} :
          Set(key, <<>>, ttl)

SpecTtl == InitTtl /\ [][NextTtl]_vars

\* ------------------------------------------------ ensure_genre_diversity
WithGenres(movie_id, genres) == [movie_id |-> movie_id, metadata |-> [genres |-> genres]]

GenrePool ==
    {WithGenres(1, {"Drama"}),
     WithGenres(2, {"Drama"}),
     WithGenres(3, {"Comedy", "Action"}),
     WithGenres(4, {"Drama", "Comedy"}),
     WithGenres(5, {}),
     WithGenres(6, {"Horror"})}

\* lists of distinct pool members of length <= n, in any order
RECURSIVE GenreLists(_)
GenreLists(n) ==
    IF n = 0 THEN {<<>>}
    ELSE LET shorter == GenreLists(n - 1)
         IN  shorter \cup
             UNION {{Append(l, x) : x \in {z \in GenrePool :
                                              \A i \in 1..(n - 1) : l[i] # z}} :
                       l \in {y \in shorter : Len(y) = n - 1}}

\* a caller invokes ensure_genre_diversity(candidates, min_genres)
EnsureGenreDiversityFor(c, candidates, min_genres) ==
    /\ c \in scn.calls
    /\ ~InFlight(c)
    /\ calls_made < scn.max_calls
    /\ calls_made' = calls_made + 1
    /\ pc' = [pc EXCEPT ![c] = "genre_diversity"]
    /\ request' = [request EXCEPT ![c] = NoRequest]
    /\ local' = [local EXCEPT ![c] = [NoLocal EXCEPT !.scored = candidates]]
    /\ outcome' = [outcome EXCEPT ![c] = NoOutcome]
    /\ trace' = [trace EXCEPT ![c] = [NoTrace EXCEPT !.min_genres = Num(min_genres)]]
    /\ UNCHANGED <<scn, cache, engine_vars, results, order>>

\* the body of ensure_genre_diversity
EnsureGenreDiversity(c) ==
    /\ pc[c] = "genre_diversity"
    /\ LET diversified == ensure_genre_diversity(local[c].scored, trace[c].min_genres.v)
       IN  /\ local' = [local EXCEPT ![c].diverse = diversified]
           /\ outcome' = [outcome EXCEPT ![c] = ListOutcome(diversified)]
    /\ pc' = [pc EXCEPT ![c] = "done"]
    /\ trace' = [trace EXCEPT ![c].stages = @ \cup {"genre_diversity"}]
    /\ UNCHANGED <<scn, cache, calls_made, engine_vars, request, results, order>>

InitGenres == InitMmr

NextGenres ==
    \/ \E c \in Calls, candidates \in GenreLists(MaxTopK + 2), min_genres \in 0..3 :
          EnsureGenreDiversityFor(c, candidates, min_genres)
    \/ \E c \in Calls : EnsureGenreDiversity(c)

SpecGenres == InitGenres /\ [][NextGenres]_vars

\* two calls in a row whose requests differ in the context only
RequestD == RecommendationRequest("u1", MaxTopK, NightContext, NoFilters, NoValue)

InitContext ==
    /\ InitCommon
    /\ gnn_enabled = TRUE
    /\ use_llm = TRUE
    /\ content_engine \in {ContentBasedEngine, FetchSource}
    /\ scn = [calls |-> Calls, requests |-> {RequestA, RequestD}, srclen |-> 1,
              movies |-> {1, 2}, failures |-> FALSE,
              max_calls |-> 2, track_order |-> "none", record |-> FALSE, replay |-> FALSE,
              sequential |-> TRUE,
              rec_cache_ttl |-> REC_CACHE_TTL, cache_default_ttl |-> CACHE_DEFAULT_TTL]

SpecContext == InitContext /\ [][Next]_vars

\* ----------------------------------------------------------------- properties
Done(c) == pc[c] = "done"
ReturnedList(c) == Done(c) /\ outcome[c].kind = "list"
KeyOf(c) == get_cache_key(request[c])
MovieIds(list) == [i \in 1..Len(list) |-> list[i].movie_id]

\* C1: when the cache holds an unexpired entry under the request's key and the
\* read succeeds, get_recommendations returns that cached list unchanged and
\* starts no candidate source, scoring, diversification or explanation.
C1_HitReturnsCached ==
    [][\A c \in Calls :
          (/\ pc[c] = "cache_get"
           /\ pc'[c] # "cache_get"
           /\ cache[KeyOf(c)].present
           /\ "get" \in trace'[c].cache_ok)
          => (/\ pc'[c] = "done"
              /\ outcome'[c] = ListOutcome(cache[KeyOf(c)].value)
              /\ trace'[c].stages = {})]_vars

\* the read succeeded, the entry is there, and the call went on to the fan-out
C1_CachedEmptyListRecomputed ==
    \E c \in Calls :
        /\ pc[c] = "fanout"
        /\ "get" \in trace[c].cache_ok
        /\ cache[KeyOf(c)] = Entry(<<>>)

\* C2: the list a completed call returns is no longer than top_k, no longer
\* than the number of unique candidates its sources produced, and holds no
\* movie id twice.
C2_ListBounded ==
    \A c \in Calls :
        ReturnedList(c) =>
            /\ Len(outcome[c].value) <= request[c].top_k
            /\ ~trace[c].hit => Len(outcome[c].value) <= trace[c].unique
            /\ NoRepeat(MovieIds(outcome[c].value))

\* a call whose sources produced more unique candidates than top_k returned
\* exactly top_k of them
C2_Truncated ==
    \E c \in Calls :
        /\ ReturnedList(c)
        /\ trace[c].unique > request[c].top_k
        /\ Len(outcome[c].value) = request[c].top_k

\* C3: when the fan-out and the merge end with zero unique candidates, the
\* caller gets the no-candidates error (ResourceNotFoundError), not another
\* error and not an empty list.
C3_NoCandidatesError ==
    \A c \in Calls :
        (Done(c) /\ "merge" \in trace[c].stages /\ trace[c].unique = 0)
        => (outcome[c].kind = "error" /\ outcome[c].error = "ResourceNotFoundError")

\* the merge found nothing and the caller got MLModelError
C3_NoCandidatesWrapped ==
    \E c \in Calls :
        /\ Done(c)
        /\ "merge" \in trace[c].stages
        /\ trace[c].unique = 0
        /\ outcome[c] = ErrorOutcome("ResourceNotFoundError")

\* the content source failed for this call: its task raised, or calling it raised
ContentFailed(c) ==
    \/ "content" \in trace[c].warnings
    \/ "sources" \in trace[c].stages /\ ~Binds(content_engine, ContentCallKwargs)

\* C4: a call whose content source failed ends as if that source had returned
\* an empty list: with a list built from the other sources, or with the
\* no-candidates error when they had none; the source's own error never
\* reaches the caller.
C4_SourceErrorAbsorbed ==
    \A c \in Calls :
        (Done(c) /\ ContentFailed(c))
        => (outcome[c].kind = "list" \/ outcome[c].cause = "ResourceNotFoundError")

\* the call to the content source raised and the caller got that error
C4_ContentCallRaised ==
    \E c \in Calls :
        /\ Done(c)
        /\ ContentFailed(c)
        /\ outcome[c] = ErrorOutcome("TypeError")

\* the content task raised inside gather, and the call returned a list built
\* from the other sources
C4_ContentTaskSkipped ==
    \E c \in Calls :
        /\ ReturnedList(c)
        /\ "content" \in trace[c].warnings
        /\ Len(outcome[c].value) >= 1

\* C5: a call all of whose cache operations failed still returns a freshly
\* computed list (or the no-candidates error when there is nothing to
\* return); the cache failure raises nothing to the caller.
C5_CacheFailureAbsorbed ==
    \A c \in Calls :
        (Done(c) /\ trace[c].cache_ok = {} /\ trace[c].cache_failed # {})
        => (outcome[c].kind = "list" \/ outcome[c].cause = "ResourceNotFoundError")

\* the read failed and the call ended with the content call's error
C5_CacheDownCallFails ==
    \E c \in Calls :
        /\ Done(c)
        /\ trace[c].cache_ok = {}
        /\ "get" \in trace[c].cache_failed
        /\ outcome[c] = ErrorOutcome("TypeError")

\* read and write both failed, twice in a row, and the second call still
\* returned a list
C5_CacheDownStillReturns ==
    \E c \in Calls :
        /\ calls_made = 2
        /\ ReturnedList(c)
        /\ trace[c].cache_failed = {"get", "set"}
        /\ Len(outcome[c].value) >= 1

\* C6: two calls with the same request on a cold cache, answered alike by
\* every backend, get the same result whatever order the source tasks of
\* either call completed in.
C6_Deterministic ==
    (/\ Done("first") /\ Done("second")
     /\ ~trace["first"].hit /\ ~trace["second"].hit)
    => outcome["first"] = outcome["second"]

\* both calls missed the cache and returned two or more recommendations, and
\* the source tasks completed in different orders
C6_ReplayedInAnotherOrder ==
    /\ ReturnedList("first") /\ ReturnedList("second")
    /\ ~trace["first"].hit /\ ~trace["second"].hit
    /\ Len(outcome["second"].value) >= 2
    /\ trace["first"].order # trace["second"].order
    /\ \E m \in Movies : m \in SeqToSet(MovieIds(trace["first"].inputs["collaborative"].list))
                             \cap SeqToSet(MovieIds(trace["first"].inputs["gnn"].list))

Priority == <<"collaborative", "content", "gnn", "trending">>
\* the places a source list offers: <<p, j>> is the j-th candidate of the p-th source
Slots(inputs) ==
    {<<p, j>> \in (1..Len(Priority)) \X (1..MaxSrcLen) :
        /\ inputs[Priority[p]].status = "returned"
        /\ j <= Len(inputs[Priority[p]].list)}
At(inputs, slot) == inputs[Priority[slot[1]]].list[slot[2]]
Before(a, b) == a[1] < b[1] \/ (a[1] = b[1] /\ a[2] < b[2])
FirstSlot(inputs, movie_id) ==
    CHOOSE a \in Slots(inputs) :
        /\ At(inputs, a).movie_id = movie_id
        /\ \A b \in Slots(inputs) : At(inputs, b).movie_id = movie_id => (a = b \/ Before(a, b))

\* C7: the merged candidate list holds every movie the sources returned once,
\* as the candidate of its first occurrence, in the order collaborative,
\* content, graph, trending and within a source in the order of its list.
C7_MergeOrder ==
    \A c \in Calls :
        (scn.record /\ pc[c] = "rank" /\ "merge" \in trace[c].stages) =>
            LET inputs == trace[c].inputs
                merged == local[c].candidates
            IN  /\ SeqToSet(MovieIds(merged)) = {At(inputs, a).movie_id : a \in Slots(inputs)}
                /\ NoRepeat(MovieIds(merged))
                /\ \A i \in 1..Len(merged) :
                      merged[i] = At(inputs, FirstSlot(inputs, merged[i].movie_id))
                /\ \A i, k \in 1..Len(merged) :
                      i < k => Before(FirstSlot(inputs, merged[i].movie_id),
                                      FirstSlot(inputs, merged[k].movie_id))

\* merged after the graph task completed first, with a movie both the
\* collaborative and the graph source returned and a content list of two
C7_MergedOutOfCompletionOrder ==
    \E c \in Calls :
        /\ pc[c] = "rank" /\ "merge" \in trace[c].stages
        /\ trace[c].order[1] = "gnn"
        /\ Len(trace[c].inputs["content"].list) = 2
        /\ Len(local[c].candidates) >= 3
        /\ \E m \in Movies : m \in SeqToSet(MovieIds(trace[c].inputs["collaborative"].list))
                                 \cap SeqToSet(MovieIds(trace[c].inputs["gnn"].list))

\* C8: the score of every ranked candidate is the weighted sum of the six
\* components stored with it.
C8_AggregateIsWeightedSum ==
    \A c \in Calls : \A i \in 1..Len(local[c].scored) :
        LET x == local[c].scored[i]
        IN  x.score = REC_COLLABORATIVE_WEIGHT * x.components.collaborative
                      + REC_CONTENT_WEIGHT * x.components.content
                      + REC_GNN_WEIGHT * x.components.gnn
                      + REC_SENTIMENT_WEIGHT * x.components.sentiment
                      + REC_POPULARITY_WEIGHT * x.components.popularity
                      + REC_CONTEXT_WEIGHT * x.components.context

\* a ranked candidate none of whose components is 0, its context component boosted
C8_AllComponentsCount ==
    \E c \in Calls : \E i \in 1..Len(local[c].scored) :
        LET x == local[c].scored[i]
        IN  /\ \A k \in DOMAIN x.components : x.components[k] # 0
            /\ x.components.context > ONE \div 2

\* the candidate a ranked entry was scored from
ScoredFrom(c, x, cand) ==
    /\ cand \in SeqToSet(local[c].candidates)
    /\ cand.movie_id = x.movie_id
    /\ cand.metadata = x.metadata

C10_ScoresInUnitInterval ==
    \A c \in Calls : \A i \in 1..Len(local[c].scored) :
        LET x == local[c].scored[i]
        IN  /\ \A k \in DOMAIN x.components : 0 <= x.components[k] /\ x.components[k] <= ONE
            /\ 0 <= x.score /\ x.score <= AGG_ONE

\* ranked on the engine as constructed: the collaborative component is 3.0
\* and the aggregate above 1
C10_UntrainedScoresThree ==
    \E c \in Calls : \E i \in 1..Len(local[c].scored) :
        LET x == local[c].scored[i]
        IN  /\ ~is_trained
            /\ x.components.collaborative = 3 * ONE
            /\ x.score > AGG_ONE

\* ranked with the model loaded and no backend failing: a negative graph component
C10_NegativeGraphScore ==
    \E c \in Calls : \E i \in 1..Len(local[c].scored) :
        /\ is_trained
        /\ trace[c].env = NoEnv
        /\ local[c].scored[i].components.gnn < 0

\* C11: the ranked list is ordered by aggregate score descending, and
\* candidates with equal aggregate scores are ordered by movie id ascending.
C11_RankedByScoreThenId ==
    \A c \in Calls :
        LET scored == local[c].scored
        IN  NoRepeat(MovieIds(scored)) =>
                \A i, j \in 1..Len(scored) :
                    i < j => \/ scored[i].score > scored[j].score
                             \/ /\ scored[i].score = scored[j].score
                                /\ scored[i].movie_id < scored[j].movie_id

\* two different movies ranked with equal aggregate scores, the larger id first
C11_TieKeepsInputOrder ==
    \E c \in Calls :
        LET scored == local[c].scored
        IN  /\ Len(scored) = 2
            /\ MovieIds(scored) = MovieIds(local[c].candidates)
            /\ scored[1].score = scored[2].score
            /\ scored[1].movie_id > scored[2].movie_id

\* the largest cosine similarity of x to the members of chosen (non-empty)
MaxSimTo(x, chosen) ==
    LET sims == {compute_similarity(extract_features(x), extract_features(chosen[i])) :
                    i \in 1..Len(chosen)}
    IN  CHOOSE m \in sims : \A s \in sims : m >= s

\* lambda * relevance - (1 - lambda) * max similarity to chosen, in 1/10^8
MmrOf(x, chosen, lambda_param) ==
    lambda_param * x.score - (10 - lambda_param) * MaxSimTo(x, chosen) * 1000

Diversified(c) == "diversify" \in trace[c].stages

\* C12: when there are more candidates than top_k, apply_mmr picks the first
\* (highest-scored) candidate, then at every step the remaining candidate that
\* maximizes lambda * relevance - (1 - lambda) * (max similarity to those
\* already selected), until top_k are picked.
C12_PicksMaximizeMmr ==
    \A c \in Calls :
        LET scored == local[c].scored
            diverse == local[c].diverse
            lambda_param == request[c].diversity_lambda
        IN  Diversified(c) /\ Len(scored) > request[c].top_k =>
                /\ Len(diverse) = request[c].top_k
                /\ diverse[1] = scored[1]
                /\ \A k \in 2..Len(diverse) :
                      LET chosen == SubSeq(diverse, 1, k - 1)
                      IN  /\ diverse[k] \in SeqToSet(scored) \ SeqToSet(chosen)
                          /\ \A r \in SeqToSet(scored) \ SeqToSet(chosen) :
                                MmrOf(diverse[k], chosen, lambda_param)
                                    >= MmrOf(r, chosen, lambda_param)

\* [4, 2, 5] with lambda 0.5 and top_k 2: the film of 1888 has a negative
\* similarity to 4 and the larger value of the formula, and 2 is picked
C12_NegativeSimilarityCountedAsZero ==
    \E c \in Calls :
        /\ Diversified(c)
        /\ request[c].diversity_lambda = 5
        /\ MovieIds(local[c].scored) = <<4, 2, 5>>
        /\ MovieIds(local[c].diverse) = <<4, 2>>
        /\ MmrOf(local[c].scored[3], <<local[c].scored[1]>>, 5)
              > MmrOf(local[c].scored[2], <<local[c].scored[1]>>, 5)

\* the example: scores 0.90, 0.85, 0.50, similarities 0.8 and 0.1, lambda 0.5,
\* top_k 2 give [1, 3]
C12_ExampleSelectsFirstAndThird ==
    \E c \in Calls :
        /\ Diversified(c)
        /\ request[c].diversity_lambda = 5
        /\ request[c].top_k = 2
        /\ MovieIds(local[c].scored) = <<1, 2, 3>>
        /\ MaxSimTo(local[c].scored[2], <<local[c].scored[1]>>) = 8000
        /\ MaxSimTo(local[c].scored[3], <<local[c].scored[1]>>) = 1000
        /\ MovieIds(local[c].diverse) = <<1, 3>>

\* C13: with lambda = 1.0, apply_mmr on a list sorted by score returns exactly
\* the first top_k candidates of that list, in the same order, ties included.
C13_PureRelevanceKeepsPrefix ==
    \A c \in Calls :
        LET scored == local[c].scored
        IN  Diversified(c) /\ request[c].diversity_lambda = 10 =>
                local[c].diverse = SubSeq(scored, 1, Min(request[c].top_k, Len(scored)))

\* lambda 1.0, more candidates than top_k, and a tie on the score across the cut
C13_TieAcrossTheCut ==
    \E c \in Calls :
        LET scored == local[c].scored
            top_k == request[c].top_k
        IN  /\ Diversified(c)
            /\ request[c].diversity_lambda = 10
            /\ Len(scored) > top_k + 1
            /\ top_k > 1
            /\ scored[top_k].score = scored[top_k + 1].score
            /\ local[c].diverse = SubSeq(scored, 1, top_k)

\* C14: with lambda = 0.0, after the first pick every pick of apply_mmr has the
\* minimal max-similarity to the already selected candidates among all
\* remaining candidates, whatever its relevance.
C14_PureDiversityPicksLeastSimilar ==
    \A c \in Calls :
        LET scored == local[c].scored
            diverse == local[c].diverse
        IN  Diversified(c) /\ request[c].diversity_lambda = 0
                /\ Len(scored) > request[c].top_k =>
                \A k \in 2..Len(diverse) :
                    LET chosen == SubSeq(diverse, 1, k - 1)
                    IN  \A r \in SeqToSet(scored) \ SeqToSet(chosen) :
                            MaxSimTo(diverse[k], chosen) <= MaxSimTo(r, chosen)

\* lambda 0.0: the second pick has similarity 0 to the first while a remaining
\* candidate has a negative one
C14_LessSimilarCandidateLeft ==
    \E c \in Calls :
        LET scored == local[c].scored
            diverse == local[c].diverse
        IN  /\ Diversified(c)
            /\ request[c].diversity_lambda = 0
            /\ Len(scored) > request[c].top_k
            /\ Len(diverse) = 2
            /\ MaxSimTo(diverse[2], <<diverse[1]>>) = 0
            /\ \E r \in SeqToSet(scored) \ SeqToSet(diverse) :
                  MaxSimTo(r, <<diverse[1]>>) < 0

Clamp01(tenths) == Max(0, Min(10, tenths))

\* C15: the lambda handed to the diversification stage is the coefficient the
\* request was constructed with, clamped to [0, 1], for every supplied value;
\* the configured default is used only when the request supplies none.
C15_LambdaIsSuppliedClamped ==
    \A c \in Calls :
        LET arg == trace[c].lambda_arg
            expected == IF arg = NoValue THEN REC_DIVERSITY_LAMBDA ELSE Clamp01(arg.v)
        IN  Diversified(c) =>
                /\ request[c].diversity_lambda = expected
                /\ local[c].diverse = apply_mmr(local[c].scored, expected, request[c].top_k)

\* a request constructed with diversity_lambda = 0.0 is diversified with the
\* configured 0.7, and the list differs from the one lambda 0.0 gives
C15_ZeroReplacedByDefault ==
    \E c \in Calls :
        /\ Diversified(c)
        /\ trace[c].lambda_arg = Num(0)
        /\ request[c].diversity_lambda = REC_DIVERSITY_LAMBDA
        /\ local[c].diverse # apply_mmr(local[c].scored, 0, request[c].top_k)

\* a request constructed with 1.5 is diversified with 1.5
C15_OutOfRangeNotClamped ==
    \E c \in Calls :
        /\ Diversified(c)
        /\ trace[c].lambda_arg = Num(15)
        /\ request[c].diversity_lambda = 15
        /\ local[c].diverse # apply_mmr(local[c].scored, 10, request[c].top_k)

KeyFields(r) == <<r.user_id, r.top_k, r.filters, r.diversity_lambda>>

\* C16: the cache key is a function of user id, top_k, filter map and diversity
\* lambda: two requests that differ in any of them have different keys, so a
\* request is never answered from an entry written for another lambda.
C16_KeyDistinguishesLambda ==
    /\ \A c \in Calls : \A r \in scn.requests :
          pc[c] # "idle" /\ KeyFields(r) # KeyFields(request[c]) =>
              get_cache_key(r) # get_cache_key(request[c])
    /\ (/\ Done("first") /\ Done("second")
        /\ "set" \in trace["first"].cache_ok
        /\ trace["second"].hit)
           => request["second"].diversity_lambda = request["first"].diversity_lambda

\* the first call (lambda 0.7) wrote its list; the second call, with lambda
\* 1.0, is answered with that list from the cache
C16_AnsweredFromOtherLambda ==
    /\ Done("first") /\ Done("second")
    /\ "set" \in trace["first"].cache_ok
    /\ request["first"].diversity_lambda = REC_DIVERSITY_LAMBDA
    /\ request["second"].diversity_lambda = 10
    /\ trace["second"].hit
    /\ outcome["second"].value = Serialize(outcome["first"].value)
    /\ outcome["second"].value # <<>>

IsText(explanation) == explanation.kind \in {"llm", "template"}

\* C17: the explanation stage never fails the request: whether the delegate
\* answers, raises or times out for a candidate, generate_explanation returns a
\* text for it, and get_recommendations returns the complete list.
C17_ExplanationNeverFails ==
    [][\A c \in Calls :
          /\ (pc[c] = "explain" /\ pc'[c] # "explain") =>
                /\ pc'[c] = "cache_set"
                /\ MovieIds(local'[c].recommendations) = MovieIds(local[c].diverse)
                /\ \A i \in 1..Len(local'[c].recommendations) :
                      IsText(local'[c].recommendations[i].explanation)
          /\ (pc[c] = "cache_set" /\ pc'[c] # "cache_set") =>
                /\ pc'[c] = "done"
                /\ outcome'[c] = ListOutcome(local[c].recommendations)]_vars

\* a list of two returned although the delegate failed for its first candidate
\* and answered for the second
C17_ReturnedAfterDelegateFailure ==
    \E c \in Calls :
        /\ ReturnedList(c)
        /\ use_llm
        /\ trace[c].llm_ok = <<FALSE, TRUE>>
        /\ Len(outcome[c].value) = 2
        /\ outcome[c].value[1].explanation.kind = "template"
        /\ outcome[c].value[2].explanation.kind = "llm"

ComponentSum(r) == SumSeq([i \in 1..Len(Components) |-> r.components[Components[i]]])

\* C18: for every component-score map, the confidence attached to the
\* recommendation lies in [0, 1].
C18_ConfidenceInUnitInterval ==
    \A c \in Calls : \A i \in 1..Len(local[c].recommendations) :
        /\ 0 <= local[c].recommendations[i].confidence
        /\ local[c].recommendations[i].confidence <= ONE

\* components whose mean is negative (graph cosine and sentiment below zero)
\* with a confidence below 0
C18_NegativeMeanBelowZero ==
    \E c \in Calls : \E i \in 1..Len(local[c].recommendations) :
        LET r == local[c].recommendations[i]
        IN  /\ ComponentSum(r) < 0
            /\ r.components.gnn < 0
            /\ r.components.sentiment < 0
            /\ r.components.collaborative <= ONE
            /\ r.confidence < 0

\* components that are all non-negative with a confidence in [0, 1]
C18_NonNegativeComponentsInRange ==
    \A c \in Calls : \A i \in 1..Len(local[c].recommendations) :
        LET r == local[c].recommendations[i]
        IN  (\A k \in DOMAIN r.components : r.components[k] >= 0) =>
                0 <= r.confidence /\ r.confidence <= ONE

\* C19: a source that does not respond is treated as empty after its timeout,
\* so a call that started its sources eventually completes even if one source
\* never returns.
C19_CallEventuallyCompletes ==
    \A c \in Calls : (pc[c] = "gather") ~> Done(c)

\* every source but the graph source has answered and the call still waits
C19_WaitingForGraphSource ==
    \E c \in Calls :
        /\ pc[c] = "gather"
        /\ results[c]["gnn"] = Pending
        /\ \A src \in RespondingSources : results[c][src] # Pending
        /\ ~ENABLED Merge(c)

Ranked(c) == "rank" \in trace[c].stages

\* C20: the outcome is all or nothing: when scoring a candidate raises, the
\* error reaches the caller; the ranking never yields a partial list from
\* which the failing candidates were silently dropped.
C20_ScoringErrorPropagates ==
    \A c \in Calls :
        LET candidates == local[c].candidates
            failing == {i \in 1..Len(candidates) : ScoringRaises(candidates[i])}
        IN  Ranked(c) =>
                IF failing # {}
                THEN outcome[c].kind = "error"
                ELSE Len(local[c].scored) = Len(candidates)

\* two candidates ranked, the scoring of the first raised, and the ranked list
\* holds the second alone with no error reported
C20_FailingCandidateDropped ==
    \E c \in Calls :
        LET candidates == local[c].candidates
        IN  /\ Ranked(c)
            /\ Len(candidates) = 2
            /\ ScoringRaises(candidates[1])
            /\ ~ScoringRaises(candidates[2])
            /\ MovieIds(local[c].scored) = <<candidates[2].movie_id>>
            /\ outcome[c].kind # "error"

\* the first call missed, completed with a list and wrote it; the second call
\* carries the same request
FirstPopulated ==
    /\ Done("first")
    /\ outcome["first"].kind = "list"
    /\ ~trace["first"].hit
    /\ "set" \in trace["first"].cache_ok
    /\ request["second"] = request["first"]

\* C21: a miss that completes successfully writes its list under the request's
\* key before it returns, so that an identical request issued after the return,
\* with the cache available and the entry not expired, is served as a hit.
C21_MissPopulatesCache ==
    [][/\ \A c \in Calls :
             (pc[c] = "cache_set" /\ pc'[c] = "done" /\ "set" \in trace'[c].cache_ok) =>
                 cache'[KeyOf(c)] = Entry(Serialize(outcome'[c].value))
       /\ (/\ FirstPopulated
           /\ pc["second"] = "cache_get" /\ pc'["second"] # "cache_get"
           /\ cache[KeyOf("second")].present
           /\ "get" \in trace'["second"].cache_ok)
              => trace'["second"].hit /\ pc'["second"] = "done"]_vars

\* the first call returned and cached the empty list; the identical second
\* call read the live entry and is starting the sources again
C21_EmptyResultNotServed ==
    /\ FirstPopulated
    /\ outcome["first"].value = <<>>
    /\ cache[KeyOf("second")] = Entry(<<>>)
    /\ "get" \in trace["second"].cache_ok
    /\ ~trace["second"].hit
    /\ pc["second"] = "fanout"

\* a non-empty list written by the first call is what the identical second
\* call returns
C21_NonEmptyResultServed ==
    [][(/\ FirstPopulated
        /\ outcome["first"].value # <<>>
        /\ pc["second"] = "cache_get" /\ pc'["second"] # "cache_get"
        /\ cache[KeyOf("second")].present
        /\ "get" \in trace'["second"].cache_ok)
           => /\ trace'["second"].hit
              /\ outcome'["second"] = ListOutcome(cache[KeyOf("second")].value)]_vars

PipelineStages == {"sources", "merge", "rank", "diversify", "explain"}

BothMissed ==
    /\ Done("first") /\ Done("second")
    /\ request["first"] = request["second"]
    /\ ~trace["first"].hit /\ ~trace["second"].hit

NoCandidates(c) == "merge" \in trace[c].stages /\ trace[c].unique = 0

\* C22: two overlapping calls with the same key on a cold cache both run the
\* whole pipeline, neither waiting for nor reusing the other; each returns a
\* complete list and each writes the cache entry; no interleaving of the two
\* yields an error or a partial list.
C22_ConcurrentCallsBothComplete ==
    BothMissed =>
        \A c \in Calls :
            \/ NoCandidates(c)
            \/ /\ outcome[c].kind = "list"
               /\ PipelineStages \subseteq trace[c].stages
               /\ Len(outcome[c].value) = Min(request[c].top_k, trace[c].unique)
               /\ "set" \in trace[c].cache_ok \cup trace[c].cache_failed

\* both calls missed and both ended with the error of the content call
C22_BothCallsFail ==
    /\ BothMissed
    /\ content_engine = ContentBasedEngine
    /\ \A c \in Calls :
          /\ outcome[c].kind = "error"
          /\ outcome[c].cause = "TypeError"
          /\ trace[c].stages = {"sources"}

\* with a content source that takes the call: both calls missed, both ran
\* every stage, returned the same non-empty list and wrote it
C22_BothCallsRecompute ==
    /\ BothMissed
    /\ \A c \in Calls :
          /\ outcome[c].kind = "list"
          /\ outcome[c].value # <<>>
          /\ PipelineStages \subseteq trace[c].stages
          /\ "set" \in trace[c].cache_ok
    /\ outcome["first"].value = outcome["second"].value

\* C23: whenever a template explanation is produced, because the delegate is
\* disabled or as the fallback after a delegate failure, the template is the
\* one keyed by the component with the highest score of the candidate.
C23_TemplateOfDominantFactor ==
    \A c \in Calls : \A i \in 1..Len(local[c].recommendations) :
        LET r == local[c].recommendations[i]
        IN  r.explanation.kind = "template" =>
                \A k \in DOMAIN r.components :
                    r.components[r.explanation.factor] >= r.components[k]

\* the delegate failed and the fallback is the collaborative template although
\* the sentiment component is the highest
C23_FallbackUsesFirstComponent ==
    \E c \in Calls : \E i \in 1..Len(local[c].recommendations) :
        LET r == local[c].recommendations[i]
        IN  /\ use_llm
            /\ trace[c].llm_ok[i] = FALSE
            /\ r.explanation.kind = "template"
            /\ r.explanation.factor = "collaborative"
            /\ DominantFactor(r.components) = "sentiment"
            /\ r.components.sentiment > r.components.collaborative

\* with the delegate disabled the template is the one of the highest component
C23_DisabledDelegateUsesDominant ==
    \A c \in Calls : \A i \in 1..Len(local[c].recommendations) :
        LET r == local[c].recommendations[i]
        IN  ~use_llm => /\ r.explanation.kind = "template"
                        /\ r.explanation.factor = DominantFactor(r.components)

NonZeroScores(components) ==
    SelectSeq([i \in 1..Len(Components) |-> components[Components[i]] \div 100],
              LAMBDA x : x # 0)

\* 1 / (1 + coefficient of variation) of the values, in units of 1/100000
ConfidenceOver(values) ==
    LET total == SumSeq(values)
        squares == SumSeq([i \in 1..Len(values) |-> values[i] * values[i]])
        spread == Isqrt(Len(values) * squares - total * total)
    IN  IF total = 0 THEN ONE \div 2 ELSE (total * ONE) \div (total + spread)

\* C24: confidence is computed from the coefficient of variation across the
\* non-zero components only: of two candidates, the one whose non-zero
\* components have the lower coefficient of variation has the higher
\* confidence, and components that are 0 do not change the confidence.
C24_ConfidenceFromNonZeroComponents ==
    \A c \in Calls :
        LET recs == local[c].recommendations
        IN  \A i, j \in 1..Len(recs) :
                /\ recs[i].confidence = ConfidenceOver(NonZeroScores(recs[i].components))
                /\ ConfidenceOver(NonZeroScores(recs[i].components))
                       > ConfidenceOver(NonZeroScores(recs[j].components))
                   => recs[i].confidence >= recs[j].confidence

\* the first candidate's non-zero components agree exactly (0.9 each) and the
\* second's are spread, yet the first has the lower confidence
C24_ZeroComponentsLowerConfidence ==
    \E c \in Calls :
        LET recs == local[c].recommendations
        IN  /\ Len(recs) = 2
            /\ SeqToSet(NonZeroScores(recs[1].components)) = {900}
            /\ recs[1].components.gnn = 0
            /\ \A k \in DOMAIN recs[2].components \ {"popularity"} : recs[2].components[k] # 0
            /\ ConfidenceOver(NonZeroScores(recs[2].components)) < ONE
            /\ recs[1].confidence < recs[2].confidence

\* the scenario: collaborative 0.9, content 0.88, graph 0.91 has a higher
\* confidence than collaborative 0.9, content 0.1, graph 0.5, all else equal
C24_LowSpreadHigherConfidence ==
    \A c \in Calls :
        LET recs == local[c].recommendations
        IN  (/\ Len(recs) = 2
             /\ recs[1].components.content = 88000 /\ recs[1].components.gnn = 91000
             /\ recs[2].components.content = 10000 /\ recs[2].components.gnn = 50000
             /\ recs[1].components.sentiment = recs[2].components.sentiment
             /\ recs[1].components.context = recs[2].components.context)
            => recs[1].confidence > recs[2].confidence

\* C25: apply_mmr on a list of length at most top_k returns all the
\* candidates unchanged, in input order.
C25_ShortListUnchanged ==
    \A c \in Calls :
        Diversified(c) /\ Len(local[c].scored) <= request[c].top_k =>
            local[c].diverse = local[c].scored

\* a list of three, not in score order, with a diversity weight: as given
C25_UnsortedShortListKept ==
    \E c \in Calls :
        LET scored == local[c].scored
        IN  /\ Diversified(c)
            /\ Len(scored) = 3
            /\ Len(scored) <= request[c].top_k
            /\ request[c].diversity_lambda < 10
            /\ scored[1].score < scored[3].score
            /\ local[c].diverse = scored

\* C26: every entry written to the result cache is stored with a finite TTL
\* (the ttl given to Set, or the configured default when none is given), for
\* every configured TTL value, so that it expires.
C26_EveryEntryExpires ==
    \A key \in CacheKeys :
        cache[key].present => cache[key].expiry # NoValue /\ cache[key].expiry.v > 0

\* REC_CACHE_TTL is configured 0: the first call wrote its list with no
\* expiry, and the second call was answered with it
C26_EntryWithoutExpiry ==
    /\ scn.rec_cache_ttl = 0
    /\ "set" \in trace["first"].cache_ok
    /\ cache[KeyOf("first")].present
    /\ cache[KeyOf("first")].expiry = NoValue
    /\ cache[KeyOf("first")].value # <<>>
    /\ trace["second"].hit
    /\ outcome["second"] = ListOutcome(cache[KeyOf("first")].value)

\* with both settings other than 0 every entry carries the ttl given to Set,
\* or the default when none was given, and is gone once it elapses
C26_NonZeroTtlExpires ==
    [][/\ (scn.rec_cache_ttl # 0 /\ scn.cache_default_ttl # 0) =>
              \A key \in CacheKeys :
                  cache'[key].present =>
                      cache'[key].expiry # NoValue /\ cache'[key].expiry.v \in ConfiguredTtls \ {0}
       /\ \A key \in CacheKeys :
              Expire(key) => /\ ~cache'[key].present
                             /\ get_json(TRUE, key)' = NoEntry]_vars

GenreDiversified(c) == "genre_diversity" \in trace[c].stages

\* the genres carried by the first n members of a list
GenresUpTo(list, n) == UNION {GenresOf(list[i]) : i \in 1..n}

\* C27: ensure_genre_diversity lets at least min_genres distinct genres appear
\* before it allows repeats: every candidate placed while fewer than
\* min_genres genres are covered has a genre that no candidate before it
\* carries, and the candidates that only repeat covered genres appear after
\* that point; none of them is lost.
C27_RepeatsMovedNotLost ==
    \A c \in Calls :
        GenreDiversified(c) =>
            LET candidates == local[c].scored
                diversified == local[c].diverse
                min_genres == trace[c].min_genres.v
            IN  /\ \A i \in 1..Len(diversified) :
                       Cardinality(GenresUpTo(diversified, i - 1)) < min_genres =>
                           GenresOf(diversified[i]) \ GenresUpTo(diversified, i - 1) # {}
                /\ \A i \in 1..Len(candidates) :
                       GenresOf(candidates[i]) # {} =>
                           \E j \in 1..Len(diversified) : diversified[j] = candidates[i]

\* [Drama, Drama, Comedy+Action, ...] with min_genres 3: the three genres are
\* covered at the third candidate, and the second one is in the result nowhere
C27_RepeatingCandidateLost ==
    \E c \in Calls :
        LET candidates == local[c].scored
            diversified == local[c].diverse
        IN  /\ GenreDiversified(c)
            /\ Len(candidates) >= 3
            /\ GenresOf(candidates[1]) = {"Drama"}
            /\ GenresOf(candidates[2]) = {"Drama"}
            /\ Cardinality(GenresUpTo(diversified, Len(diversified))) >= trace[c].min_genres.v
            /\ \A j \in 1..Len(diversified) : diversified[j] # candidates[2]

\* what does hold: each candidate placed before min_genres genres are covered
\* brings a new genre, the result keeps the input order, and from the point
\* where min_genres are covered on every candidate is kept
C27_NewGenreWhileUncovered ==
    \A c \in Calls :
        GenreDiversified(c) =>
            LET candidates == local[c].scored
                diversified == local[c].diverse
                min_genres == trace[c].min_genres.v
            IN  /\ \A i \in 1..Len(diversified) :
                       Cardinality(GenresUpTo(diversified, i - 1)) < min_genres =>
                           GenresOf(diversified[i]) \ GenresUpTo(diversified, i - 1) # {}
                /\ \E kept \in SUBSET (1..Len(candidates)) :
                       diversified = SelectSeq([i \in 1..Len(candidates) |->
                                                   IF i \in kept THEN candidates[i]
                                                   ELSE WithGenres(0, {})],
                                               LAMBDA x : x.movie_id # 0)
                /\ \A i \in 1..Len(candidates) :
                       Cardinality(GenresUpTo(candidates, i - 1)) >= min_genres =>
                           \E j \in 1..Len(diversified) : diversified[j] = candidates[i]

\* the second call repeated the first call's request and was answered from
\* the entry the first call wrote on its miss
HitAfterPopulatingMiss ==
    /\ request["second"] = request["first"]
    /\ ~trace["first"].hit
    /\ "set" \in trace["first"].cache_ok
    /\ outcome["first"].kind = "list"
    /\ trace["second"].hit
    /\ outcome["second"].kind = "list"

\* C28: the list returned by the cache-miss call that populates an entry
\* equals the list returned by a subsequent hit on it: same movie ids in the
\* same order, same aggregate scores, component scores, confidence,
\* explanations and metadata.
C28_HitEqualsMiss ==
    HitAfterPopulatingMiss => outcome["second"].value = outcome["first"].value

\* the hit answers the miss's list with score, components and confidence
\* rounded to four decimals, and a score of the miss has more
C28_HitIsRounded ==
    /\ HitAfterPopulatingMiss
    /\ outcome["second"].value = Serialize(outcome["first"].value)
    /\ \E i \in 1..Len(outcome["first"].value) :
           /\ outcome["first"].value[i].movie_id = outcome["second"].value[i].movie_id
           /\ outcome["first"].value[i].score # outcome["second"].value[i].score

\* what does hold: same length, ids, order, explanations and metadata, and
\* the numbers of the miss rounded to four decimals
C28_HitIsMissRounded ==
    HitAfterPopulatingMiss =>
        LET miss == outcome["first"].value
            hit == outcome["second"].value
        IN  /\ Len(hit) = Len(miss)
            /\ \A i \in 1..Len(miss) :
                   /\ hit[i].movie_id = miss[i].movie_id
                   /\ hit[i].explanation = miss[i].explanation
                   /\ hit[i].metadata = miss[i].metadata
                   /\ hit[i] = to_dict(miss[i])

\* C29: when get_recommendations fails (no candidates, or an error in a
\* stage) it writes no entry to the cache: the failing call has issued no
\* cache write, and the cached values are the same after the failure as
\* before it.
C29_FailedCallWritesNothing ==
    [][\A c \in Calls :
           outcome'[c].kind = "error" /\ outcome[c].kind # "error" =>
               /\ cache' = cache
               /\ "set" \notin trace'[c].cache_ok \cup trace'[c].cache_failed]_vars

\* a call that could not read the cache found no candidates and failed; the
\* entry an earlier call wrote under its key is still there
C29_FailedWithEntryKept ==
    \E c \in Calls :
        /\ outcome[c] = ErrorOutcome("ResourceNotFoundError")
        /\ "get" \in trace[c].cache_failed
        /\ "set" \notin trace[c].cache_ok
        /\ cache[KeyOf(c)].present
        /\ cache[KeyOf(c)].value # <<>>

SameButContext(r1, r2) ==
    /\ r1.user_id = r2.user_id
    /\ r1.top_k = r2.top_k
    /\ r1.filters = r2.filters
    /\ r1.context # r2.context

\* the first call missed, returned a list and cached it; the second call's
\* request differs from the first's in the context only
FirstPopulatedOtherContext ==
    /\ Done("first")
    /\ outcome["first"].kind = "list"
    /\ ~trace["first"].hit
    /\ "set" \in trace["first"].cache_ok
    /\ SameButContext(request["first"], request["second"])

\* C30: the cache key does not depend on the context: two requests equal in
\* user id, top_k and filters but different in context have one key, and while
\* the entry written for the first is live the second is answered with that
\* list, computed under the first's context, with no stage run again.
C30_EntrySharedAcrossContexts ==
    [][/\ \A r1, r2 \in scn.requests :
              SameButContext(r1, r2) => get_cache_key(r1) = get_cache_key(r2)
       /\ (/\ FirstPopulatedOtherContext
           /\ pc["second"] = "cache_get" /\ pc'["second"] # "cache_get"
           /\ cache[KeyOf("second")].present
           /\ "get" \in trace'["second"].cache_ok)
              => /\ trace'["second"].hit
                 /\ outcome'["second"] = ListOutcome(cache[KeyOf("second")].value)
                 /\ trace'["second"].stages = {}]_vars

\* the first call cached the empty list; the second call, with another
\* context, read the live entry and is starting the sources under its own
C30_EmptyEntryRecomputed ==
    /\ FirstPopulatedOtherContext
    /\ cache[KeyOf("second")] = Entry(<<>>)
    /\ "get" \in trace["second"].cache_ok
    /\ ~trace["second"].hit
    /\ pc["second"] = "fanout"

\* the keys are equal, and a non-empty list cached for the first context is
\* what the request with the other context gets
C30_NonEmptyEntryShared ==
    [][/\ \A r1, r2 \in scn.requests :
              SameButContext(r1, r2) => get_cache_key(r1) = get_cache_key(r2)
       /\ (/\ FirstPopulatedOtherContext
           /\ pc["second"] = "cache_get" /\ pc'["second"] # "cache_get"
           /\ cache[KeyOf("second")].present
           /\ cache[KeyOf("second")].value # <<>>
           /\ "get" \in trace'["second"].cache_ok)
              => /\ trace'["second"].hit
                 /\ outcome'["second"] = ListOutcome(cache[KeyOf("second")].value)
                 /\ trace'["second"].stages = {}]_vars

\* a request with the night context was answered with the list scored under
\* the empty context
C30_ServedUnderOtherContext ==
    /\ FirstPopulatedOtherContext
    /\ request["first"].context = EmptyContext
    /\ request["second"].context = NightContext
    /\ trace["second"].hit
    /\ outcome["second"].value # <<>>
    /\ outcome["second"].value = Serialize(outcome["first"].value)
====
